---- MODULE Spec2Model ----
(***************************************************************************)
(* A model of dbling's graph construction and candidate decomposition:     *)
(*   common/graph.py      DblingGraph, make_graph_from_dir,                 *)
(*                        set_vertex_props                                  *)
(*   profiler/profile.py  go, extract_candidates, get_subtree_vertices      *)
(*                                                                         *)
(* A graph is a record                                                     *)
(*   n      the number of vertices; vertices are indexed 0 .. n-1, as in   *)
(*          graph_tool                                                      *)
(*   vp     the vertex property maps, one record of values per index       *)
(*   edges  the set of directed edges <<source, target>>                   *)
(*   gp     the graph property maps                                        *)
(*   has_extended_attrs  the Python attribute of the same name             *)
(***************************************************************************)
EXTENDS Integers, Sequences, FiniteSets, TLC

\* ------------------------------------------------------------------ bounds
MaxV == 3
MaxE == 3
MaxEnc == 1
\* MaxGV bounds the vertices of the graphs that DblingGraph's methods are
\* called on and that go loads.
MaxGV == 2

\* ------------------------------------------------------- program constants
MAX_DIST == 2147483647

\* The Python attribute has_extended_attrs: "True", "False", or "unset" on an
\* instance whose __init__ never assigned it.
Unset == "unset"

\* ------------------------------------------------------------------ paths
\* A path is the sequence of its components, and a component is a record:
\* id tells names apart, enc tells whether the name carries the marker the
\* encryption pattern looks for.

\* sha256(filename.encode('utf-8')).hexdigest(): one digest per path.
Sha256(p) == <<"sha256", p>>

\* re.search(ENC_PAT, sliced_fn): the pattern is matched by the last
\* component of the path.
EncMatch(p) == p # <<>> /\ p[Len(p)].enc

\* The component a mounted image's path starts with.
MountName == [id |-> 0, enc |-> FALSE]

\* re.search(SLICE_PAT, filename).group(1) when the pattern matches: the
\* path without the mount point it starts with.
SlicedFn(filename, slicing) ==
    IF slicing /\ Len(filename) > 1 /\ filename[1] = MountName
    THEN Tail(filename)
    ELSE filename

\* path.join(dirpath, f)
join(p, f) == Append(p, f)

\* ------------------------------------------------------------ DblingGraph
\* The values new_vertex_property gives a vertex that was never set.
DefaultProps ==
    [inode |-> 0, parent_inode |-> 0, filename |-> <<>>, filename_id |-> <<>>,
     name_type |-> "", encrypted |-> FALSE, dir_depth |-> 0,
     gt_min_depth |-> FALSE, keeper |-> TRUE]

\* The vertex property maps __init__ creates, and those that
\* init_extended_attrs adds.
BaseKeys ==
    {"inode", "parent_inode", "filename", "filename_id", "filename_end",
     "filename_b_len", "name_type", "type", "filesize", "encrypted", "eval",
     "size", "mode", "uid", "gid", "nlink", "mtime", "ctime", "atime",
     "dir_depth", "gt_min_depth", "keeper"}

ExtendedKeys ==
    {"alloc", "used", "fs_offset", "src_files", "crtime", "color", "shape"}

\* DblingGraph(): no vertices, the property maps created, the flag cleared.
NewDblingGraph ==
    [n |-> 0, vp |-> <<>>, vp_keys |-> BaseKeys, edges |-> {},
     gp |-> [has_encrypted_files |-> FALSE],
     has_extended_attrs |-> "False"]

\* The value of a local variable that holds no graph yet.
NoGraph ==
    [n |-> 0, vp |-> <<>>, vp_keys |-> {}, edges |-> {},
     gp |-> [has_encrypted_files |-> FALSE],
     has_extended_attrs |-> "unbound"]

num_vertices(g) == g.n

\* g.vertices(): the indices in increasing order.
vertices(g) == [k \in 1..g.n |-> k - 1]

\* DblingGraph(g=self): graph_tool copies the vertices, the edges and the
\* internal property maps; __init__ skips its "g is None" branch, so the
\* instance attribute has_extended_attrs is never assigned on the copy.
copy(g) ==
    [n |-> g.n, vp |-> g.vp, vp_keys |-> g.vp_keys, edges |-> g.edges,
     gp |-> g.gp, has_extended_attrs |-> Unset]

\* init_extended_attrs() on a graph whose flag is set one way or the other:
\* the additional property maps are created once.
init_extended_attrs(g) ==
    IF g.has_extended_attrs = "False"
    THEN [g EXCEPT !.vp_keys = @ \cup ExtendedKeys, !.has_extended_attrs = "True"]
    ELSE g

\* add_vertex(): the new vertex takes index n and every property its default.
add_vertex(g) ==
    [g EXCEPT !.n = g.n + 1,
              !.vp = [i \in 0..g.n |-> IF i < g.n THEN g.vp[i] ELSE DefaultProps]]

add_edge(g, s, t) == [g EXCEPT !.edges = g.edges \cup {<<s, t>>}]

\* remove_vertex(v) of one vertex: its edges go, and every vertex with a
\* higher index moves down by one, its property values with it.
Shift(i, v) == IF i > v THEN i - 1 ELSE i

\* A plausible slip: the vertices move down and their property values stay
\* where they were.
RemoveOneVertexValuesStay(g, v) ==
    [g EXCEPT
        !.n = g.n - 1,
        !.vp = [i \in 0..(g.n - 2) |-> g.vp[i]],
        !.edges = {<<Shift(e[1], v), Shift(e[2], v)>> :
                      e \in {d \in g.edges : d[1] # v /\ d[2] # v}}]

RemoveOneVertex(g, v) ==
    [g EXCEPT
        !.n = g.n - 1,
        !.vp = [i \in 0..(g.n - 2) |-> IF i < v THEN g.vp[i] ELSE g.vp[i + 1]],
        !.edges = {<<Shift(e[1], v), Shift(e[2], v)>> :
                      e \in {d \in g.edges : d[1] # v /\ d[2] # v}}]

SeqRange(s) == {s[k] : k \in 1..Len(s)}

SetMax(S) == CHOOSE x \in S : \A y \in S : y <= x
SetMin(S) == CHOOSE x \in S : \A y \in S : x <= y

\* In the recursive definitions below an intermediate value is bound by
\* "x \in {value}", which names the value once it is computed.

\* The indices of a list in decreasing order.
RECURSIVE SortDecreasing(_)
SortDecreasing(S) ==
    IF S = {} THEN <<>>
    ELSE CHOOSE r \in {<<m>> \o SortDecreasing(rest) :
                          m \in {SetMax(S)}, rest \in {S \ {SetMax(S)}}} : TRUE

RECURSIVE RemoveInOrder(_, _)
RemoveInOrder(g, order) ==
    IF order = <<>> THEN g
    ELSE CHOOSE r \in {RemoveInOrder(h, rest) :
                          h \in {RemoveOneVertex(g, Head(order))},
                          rest \in {Tail(order)}} : TRUE

\* A plausible slip: the list is removed front to back, one vertex at a
\* time, so every removal re-indexes the vertices the later entries name.
RemoveFrontToBack(g, rm_list) ==
    RemoveInOrder(g, [k \in 1..Len(rm_list) |->
                        IF rm_list[k] < g.n - (k - 1) THEN rm_list[k] ELSE g.n - k])

\* remove_vertex(rm_list) of a list: graph_tool removes the listed indices
\* in decreasing order, so no removal disturbs an index still to be removed.
remove_vertex(g, rm_list) ==
    CHOOSE r \in {RemoveInOrder(g, order) :
                     order \in {SortDecreasing(SeqRange(rm_list))}} : TRUE

\* -------------------------------------------------- get_subtree_vertices
\* The neighbours of a set of vertices, edge direction ignored.
Neighbours(g, S) ==
    {e[2] : e \in {d \in g.edges : d[1] \in S}} \cup
    {e[1] : e \in {d \in g.edges : d[2] \in S}}

\* shortest_distance(g, source, directed=False): breadth-first search; a
\* vertex that is never reached keeps the int32 maximum.
RECURSIVE BfsLevels(_, _, _, _)
BfsLevels(g, frontier, dist, d) ==
    CHOOSE r \in
        {IF next = {} THEN dist
         ELSE CHOOSE r2 \in
                 {BfsLevels(g, next, reached, d + 1) :
                     reached \in {[i \in 0..(g.n - 1) |->
                                     IF i \in next THEN d + 1 ELSE dist[i]]}} : TRUE
           : next \in {{w \in Neighbours(g, frontier) : dist[w] = MAX_DIST}}} : TRUE

shortest_distance(g, source) ==
    CHOOSE r \in
        {BfsLevels(g, {source}, dist0, 0) :
            dist0 \in {[i \in 0..(g.n - 1) |-> IF i = source THEN 0 ELSE MAX_DIST]}} : TRUE

\* The list of a set of indices in increasing order (enumerate(dist.a)).
RECURSIVE SortIncreasing(_)
SortIncreasing(S) ==
    IF S = {} THEN <<>>
    ELSE CHOOSE r \in {<<m>> \o SortIncreasing(rest) :
                          m \in {SetMin(S)}, rest \in {S \ {SetMin(S)}}} : TRUE

SubtreeFrom(g, seed) ==
    CHOOSE l \in {SortIncreasing({i \in 0..(g.n - 1) : dist[i] < MAX_DIST}) :
                     dist \in {shortest_distance(g, seed)}} : TRUE

\* Plausible slips in get_subtree_vertices.
SubtreeFromLast(g) == SubtreeFrom(g, g.n - 1)

SubtreeDirected(g) ==
    LET out == {e[2] : e \in {d \in g.edges : d[1] = 0}}
    IN SortIncreasing({0} \cup out)

SubtreeStrictlyReached(g) ==
    CHOOSE l \in {SortIncreasing({i \in 0..(g.n - 1) : 0 < dist[i] /\ dist[i] < MAX_DIST}) :
                     dist \in {shortest_distance(g, 0)}} : TRUE

\* A plausible slip: "v <= MAX_DIST", which no distance fails.
SubtreeUpToMax(g) ==
    CHOOSE l \in {SortIncreasing({i \in 0..(g.n - 1) : dist[i] <= MAX_DIST}) :
                     dist \in {shortest_distance(g, 0)}} : TRUE

\* g.vertex(0) on a graph without vertices raises ValueError.
ValueError == [raised |-> "ValueError"]

get_subtree_vertices(g) ==
    IF num_vertices(g) = 0 THEN ValueError ELSE SubtreeFrom(g, 0)

\* "v in sg_vertices": graph_tool compares vertex descriptors by index.
InList(v, l) == v \in SeqRange(l)

SelectIn(vs, l) == SelectSeq(vs, LAMBDA v : InList(v, l))
SelectNotIn(vs, l) == SelectSeq(vs, LAMBDA v : ~InList(v, l))

\* ------------------------------------------------------------ path strings
\* A path string is the sequence of its characters. MaxLen bounds the
\* strings get_dir_depth is called on.
MaxLen == 4

Sep == "/"

Alphabet == {Sep, "a", "m"}

\* p.rfind('/') + 1
RFindSep(p) ==
    LET at == {i \in 1..Len(p) : p[i] = Sep}
    IN IF at = {} THEN 0 ELSE SetMax(at)

\* head == '/' * len(head)
AllSeps(p) == \A i \in 1..Len(p) : p[i] = Sep

\* head.rstrip('/')
RStripSep(p) ==
    LET keep == {i \in 1..Len(p) : p[i] # Sep}
    IN IF keep = {} THEN <<>> ELSE SubSeq(p, 1, SetMax(keep))

\* A plausible slip: the head keeps its trailing separators.
SplitNoStrip(p) ==
    [head |-> SubSeq(p, 1, RFindSep(p)),
     tail |-> SubSeq(p, RFindSep(p) + 1, Len(p))]

\* path.split(_head), posixpath: the head has its trailing separators
\* stripped unless it consists of separators only.
split(p) ==
    LET i == RFindSep(p)
        head == SubSeq(p, 1, i)
        tail == SubSeq(p, i + 1, Len(p))
    IN [head |-> IF head # <<>> /\ ~AllSeps(head) THEN RStripSep(head) ELSE head,
        tail |-> tail]

\* The string of the mount point a mounted image's paths start with.
MountStr == <<Sep, "m">>

\* re.search(SLICE_PAT, filename).group(1) when the pattern matches, the
\* filename otherwise: the pattern matches a path below the mount point.
SliceStr(filename) ==
    IF /\ Len(filename) > Len(MountStr)
       /\ SubSeq(filename, 1, Len(MountStr)) = MountStr
       /\ filename[Len(MountStr) + 1] = Sep
    THEN SubSeq(filename, Len(MountStr) + 1, Len(filename))
    ELSE filename

\* ----------------------------------------------------------- get_dir_depth
\* The locals of get_dir_depth before the loop.
DepthStart(filename) ==
    [head |-> filename, tail |-> <<>>, depth |-> 0, steps |-> 0, pc |-> "loop"]

\* One iteration of "while True".
DepthStep(st) ==
    LET prev_head == st.head
        sp == split(st.head)
        at == [st EXCEPT !.head = sp.head, !.tail = sp.tail, !.steps = @ + 1]
    IN IF prev_head = sp.head THEN [at EXCEPT !.pc = "break"]
       ELSE IF Len(sp.tail) = 0 THEN at
       ELSE IF Len(sp.head) = 0
            THEN [at EXCEPT !.depth = @ + 1, !.pc = "break"]
            ELSE [at EXCEPT !.depth = @ + 1]

RECURSIVE DepthLoop(_)
DepthLoop(st) ==
    IF st.pc = "break" THEN st
    ELSE CHOOSE r \in {DepthLoop(nx) : nx \in {DepthStep(st)}} : TRUE

\* get_dir_depth(filename, slice_path)
get_dir_depth(filename, slicing) ==
    DepthLoop(DepthStart(IF slicing THEN SliceStr(filename) ELSE filename)).depth

\* -------------------------------------------------------------- variables
VARIABLES
    in_graph,     \* extract_candidates: the graph as it was passed in
    orig_graph,   \* extract_candidates: the working graph
    sub_graph,    \* extract_candidates: the scratch copy
    sg_vertices,  \* extract_candidates: the list get_subtree_vertices gave
    candidates,   \* extract_candidates: the candidates appended so far
    ex_pc,        \* extract_candidates: the position in the function
    fs,           \* the directory tree make_graph_from_dir is run on
    top_dir,      \* make_graph_from_dir: the path passed as top_dir
    digr_arg,     \* make_graph_from_dir: the digr argument as it was passed
    digr,         \* make_graph_from_dir: the graph being filled
    slice_path,   \* make_graph_from_dir: the flag of the same name
    id_to_vertex, \* make_graph_from_dir: the dict of the same name
    ttl_objects,  \* make_graph_from_dir: the counter of the same name
    walk_todo,    \* os.walk: the directories it has still to yield
    dirpath,      \* os.walk: the directory it yielded last
    entries,      \* what is left of "dirnames + filenames" in the inner loop
    wk_pc,        \* make_graph_from_dir: the position in the function
    wk_exc,       \* make_graph_from_dir: the exception that left it, if any
    go_args,      \* go: its arguments
    go_env,       \* go: what the process and the file system allow
    go_file,      \* go: output_file and file_needs_closing
    go_calls,     \* go: the calls it has made, in order
    go_out,       \* go: what it has logged and printed, in order
    go_pc,        \* go: the position in the function
    go_exc,       \* go: the exception that left it, if any
    go_graph,     \* go: the graph of the FilesDiff object "graph"
    go_copy,      \* go: the graph passed to extract_candidates, as the call left it
    go_candidates, \* go: candidates
    go_matched,   \* go: the list match_candidates was called with
    gd_filename,  \* get_dir_depth: the filename argument
    gd_slice,     \* get_dir_depth: the slice_path argument
    gd_head,      \* get_dir_depth: _head
    gd_tail,      \* get_dir_depth: _tail
    gd_depth,     \* get_dir_depth: dir_depth
    gd_steps,     \* get_dir_depth: the loop iterations started so far
    gd_pc,        \* get_dir_depth: the position in the function
    dg_g,         \* a DblingGraph g that a caller has made and filled
    dg_h,         \* a second DblingGraph h: a new one, or a copy of g
    dg_file,      \* what the file f holds
    dg_file_was,  \* what the file f held before the last call
    dg_last,      \* the last method called on g or h
    dg_prev,      \* the method called before that
    dg_exc,       \* the exception a call has ended in, if any
    READ_ONLY,    \* db_iface: the module flag of the same name
    db_ids,       \* the committed rows of the id_list table: a set of ext_id
    db_table,     \* the committed rows of the extension table, in pk order
    db_stage,     \* per (ext_id, version): how far the tasks run so far got
    db_task,      \* the task that ended in the last step: its input, what it saw and did
    db_pc,        \* "import" until the module is set up, then "ready"
    cc_task,      \* per worker: the task it is running
    cc_runs       \* the tasks the workers have started

exVars == <<in_graph, orig_graph, sub_graph, sg_vertices, candidates, ex_pc>>

wkVars == <<fs, top_dir, digr_arg, digr, slice_path, id_to_vertex, ttl_objects,
            walk_todo, dirpath, entries, wk_pc, wk_exc>>

goData == <<go_graph, go_copy, go_candidates, go_matched>>

goVars == <<go_args, go_env, go_file, go_calls, go_out, go_pc, go_exc, goData>>

gdVars == <<gd_filename, gd_slice, gd_head, gd_tail, gd_depth, gd_steps, gd_pc>>

\* Everything outside extract_candidates, make_graph_from_dir and go.
dgVars == <<dg_g, dg_h, dg_file, dg_file_was, dg_last, dg_prev, dg_exc>>

dbVars == <<READ_ONLY, db_ids, db_table, db_stage, db_task, db_pc, cc_task, cc_runs>>

restVars == <<gdVars, dgVars, dbVars>>

vars == <<exVars, wkVars, goVars, restVars>>

\* ------------------------------------------------- extract_candidates
\* The subsets of S with at most k elements.
RECURSIVE UpTo(_, _)
UpTo(S, k) ==
    IF k = 0 THEN {{}}
    ELSE LET prev == UpTo(S, k - 1)
         IN prev \cup {s \cup {e} : s \in prev, e \in S}

\* The input graphs: up to MaxV vertices, up to MaxE edges (no self-loops,
\* no parallel edges), up to MaxEnc vertices with encrypted set; the graph
\* property is what set_vertex_props left behind on such a graph.
InputGraph(n, es, enc) ==
    [n |-> n,
     vp_keys |-> BaseKeys,
     vp |-> [i \in 0..(n - 1) |->
                [DefaultProps EXCEPT
                    !.inode = 100 + i,
                    !.filename = <<[id |-> i, enc |-> i \in enc]>>,
                    !.filename_id = Sha256(<<[id |-> i, enc |-> i \in enc]>>),
                    !.name_type = "regular file",
                    !.encrypted = EncMatch(<<[id |-> i, enc |-> i \in enc]>>)]],
     edges |-> es,
     gp |-> [has_encrypted_files |-> (enc # {})],
     has_extended_attrs |-> "False"]

\* Before the call: no graph has been passed yet.
InitExtract ==
    /\ in_graph = NoGraph
    /\ orig_graph = NoGraph
    /\ sub_graph = NoGraph
    /\ sg_vertices = <<>>
    /\ candidates = <<>>
    /\ ex_pc = "call"

\* extract_candidates(orig_graph) is called: candidates = []
ExCall ==
    /\ ex_pc = "call"
    /\ \E n \in 0..MaxV :
         \E es \in UpTo({e \in (0..(n - 1)) \X (0..(n - 1)) : e[1] # e[2]}, MaxE) :
           \E enc \in UpTo(0..(n - 1), MaxEnc) :
              in_graph' = InputGraph(n, es, enc)
    /\ orig_graph' = in_graph'
    /\ candidates' = <<>>
    /\ ex_pc' = "while"
    /\ UNCHANGED <<sub_graph, sg_vertices>>
    /\ UNCHANGED <<wkVars, goVars, restVars>>

\* while orig_graph.num_vertices() > 0: sub_graph = orig_graph.copy()
ExCopy ==
    /\ ex_pc = "while"
    /\ num_vertices(orig_graph) > 0
    /\ sub_graph' = copy(orig_graph)
    /\ ex_pc' = "subtree"
    /\ UNCHANGED <<in_graph, orig_graph, sg_vertices, candidates>>
    /\ UNCHANGED <<wkVars, goVars, restVars>>

\* sg_vertices = get_subtree_vertices(sub_graph)
ExSubtree ==
    /\ ex_pc = "subtree"
    /\ sg_vertices' = get_subtree_vertices(sub_graph)
    /\ ex_pc' = IF num_vertices(sub_graph) = 0 THEN "raised" ELSE "rm_orig"
    /\ UNCHANGED <<in_graph, orig_graph, sub_graph, candidates>>
    /\ UNCHANGED <<wkVars, goVars, restVars>>

\* Remove all vertices in the subgraph from the original graph.
ExRemoveOrig ==
    /\ ex_pc = "rm_orig"
    /\ orig_graph' = remove_vertex(orig_graph, SelectIn(vertices(orig_graph), sg_vertices))
    /\ ex_pc' = "rm_sub"
    /\ UNCHANGED <<in_graph, sub_graph, sg_vertices, candidates>>
    /\ UNCHANGED <<wkVars, goVars, restVars>>

\* Remove all vertices not in the list from the scratch copy.
ExRemoveSub ==
    /\ ex_pc = "rm_sub"
    /\ sub_graph' = remove_vertex(sub_graph, SelectNotIn(vertices(sub_graph), sg_vertices))
    /\ ex_pc' = "append"
    /\ UNCHANGED <<in_graph, orig_graph, sg_vertices, candidates>>
    /\ UNCHANGED <<wkVars, goVars, restVars>>

\* if sub_graph.num_vertices(): candidates.append(sub_graph)
ExAppend ==
    /\ ex_pc = "append"
    /\ candidates' = IF num_vertices(sub_graph) # 0
                     THEN Append(candidates, sub_graph)
                     ELSE candidates
    /\ ex_pc' = "while"
    /\ UNCHANGED <<in_graph, orig_graph, sub_graph, sg_vertices>>
    /\ UNCHANGED <<wkVars, goVars, restVars>>

\* The loop condition fails: return candidates.
ExReturn ==
    /\ ex_pc = "while"
    /\ num_vertices(orig_graph) = 0
    /\ ex_pc' = "done"
    /\ UNCHANGED <<in_graph, orig_graph, sub_graph, sg_vertices, candidates>>
    /\ UNCHANGED <<wkVars, goVars, restVars>>

\* The loop of extract_candidates, run to its end.
RECURSIVE ExtractLoop(_, _)
ExtractLoop(orig, cands) ==
    IF num_vertices(orig) > 0
    THEN LET sub == copy(orig)
             sg == get_subtree_vertices(sub)
             orig2 == remove_vertex(orig, SelectIn(vertices(orig), sg))
             sub2 == remove_vertex(sub, SelectNotIn(vertices(sub), sg))
         IN ExtractLoop(orig2, IF num_vertices(sub2) # 0
                               THEN Append(cands, sub2) ELSE cands)
    ELSE [orig_graph |-> orig, candidates |-> cands]

\* extract_candidates(orig_graph) as one call: the list it returns and the
\* graph it was passed, as the call leaves it.
extract_candidates(g) == ExtractLoop(g, <<>>)

\* A step inside extract_candidates.
ExStep ==
    \/ ExCopy
    \/ ExSubtree
    \/ ExRemoveOrig
    \/ ExRemoveSub
    \/ ExAppend
    \/ ExReturn

NextExtract ==
    \/ ExCall
    \/ ExStep

\* ----------------------------------------------------- the file system
\* A directory tree is a record: obj lists its objects, object 1 being what
\* top_dir names; enc holds the objects whose names match the encryption
\* pattern; fails holds the objects whose metadata cannot be read.
\* An object has its parent directory (0 for object 1), its kind ("dir",
\* "file", "lnk", or "none" when nothing is there) and, for a symlink, the
\* directory it points to (0 when it points to no directory).
MaxObjs == 3
MaxFail == 1

\* The objects that may be added to the tree s.
Shapes(s) ==
    LET dirs == {j \in 1..Len(s) : s[j].kind = "dir"}
    IN {[parent |-> p, kind |-> k, target |-> 0] :
           p \in dirs, k \in {"dir", "file"}}
       \cup {[parent |-> p, kind |-> "lnk", target |-> tg] :
           p \in dirs, tg \in dirs \cup {0}}

RECURSIVE Trees(_)
Trees(k) ==
    IF k = 1
    THEN {<<[parent |-> 0, kind |-> rk, target |-> 0]>> : rk \in {"dir", "file", "none"}}
    ELSE UNION {{Append(s, o) : o \in Shapes(s)} : s \in Trees(k - 1)}

NoFs == [obj |-> <<>>, enc |-> {}, fails |-> {}, mounted |-> FALSE]

NameOf(f, i) == [id |-> i, enc |-> i \in f.enc]

RECURSIVE PathOf(_, _)
PathOf(f, i) ==
    IF i = 1
    THEN IF f.mounted THEN <<MountName, NameOf(f, 1)>> ELSE <<NameOf(f, 1)>>
    ELSE Append(PathOf(f, f.obj[i].parent), NameOf(f, i))

\* The object a path names, 0 when it names none.
Lookup(f, p) ==
    LET found == {i \in 1..Len(f.obj) : f.obj[i].kind # "none" /\ PathOf(f, i) = p}
    IN IF found = {} THEN 0 ELSE CHOOSE i \in found : TRUE

\* os.stat(filename, follow_symlinks=False) raises OSError.
StatFails(f, p) == Lookup(f, p) = 0 \/ Lookup(f, p) \in f.fails

st_ino(f, p) == 10 + Lookup(f, p)

\* TYPE_TO_NAME[t] for the type bits of st_mode.
TypeName(f, p) ==
    CASE f.obj[Lookup(f, p)].kind = "dir" -> "directory"
      [] f.obj[Lookup(f, p)].kind = "lnk" -> "symbolic link"
      [] OTHER -> "regular file"

\* Whether an object counts as a directory when symlinks are followed.
IsDirObj(f, i) ==
    \/ f.obj[i].kind = "dir"
    \/ /\ f.obj[i].kind = "lnk"
       /\ f.obj[i].target # 0
       /\ f.obj[i].target \notin f.fails

\* A plausible slip: the test is path.exists.
exists(f, p) ==
    /\ Lookup(f, p) # 0
    /\ Lookup(f, p) \notin f.fails

\* path.isdir(top_dir): False when the path cannot be examined.
isdir(f, p) ==
    /\ Lookup(f, p) # 0
    /\ Lookup(f, p) \notin f.fails
    /\ IsDirObj(f, Lookup(f, p))

\* What an object was while it could still be examined.
WasDirObj(f, i) ==
    \/ f.obj[i].kind = "dir"
    \/ f.obj[i].kind = "lnk" /\ f.obj[i].target # 0

\* The answers path.isdir(top_dir) may give: an object whose metadata cannot
\* be read at os.stat may have become so before the assertion looked at it
\* or after.
IsDirAnswers(f, p) ==
    {isdir(f, p)} \cup
    (IF Lookup(f, p) # 0 /\ Lookup(f, p) \in f.fails /\ WasDirObj(f, Lookup(f, p))
     THEN {TRUE} ELSE {})

Children(f, i) == {j \in 1..Len(f.obj) : f.obj[j].parent = i}

NamesOf(f, objs) == [k \in 1..Len(objs) |-> NameOf(f, objs[k])]

\* The orders a set can be listed in.
RECURSIVE Perms(_)
Perms(S) ==
    IF S = {} THEN {<<>>}
    ELSE UNION {{<<x>> \o rest : rest \in Perms(S \ {x})} : x \in S}

\* entry.is_dir() inside os.walk: a directory is known from the listing
\* itself; a symlink has to be followed, and when the symlink or its target
\* is an object whose metadata cannot be read the call may fail (os.walk
\* then takes the entry for a non-directory) or may still have succeeded.
IsDirOutcomes(f, j) ==
    IF /\ f.obj[j].kind = "lnk"
       /\ WasDirObj(f, j)
       /\ (j \in f.fails \/ f.obj[j].target \in f.fails)
    THEN {TRUE, FALSE}
    ELSE {IsDirObj(f, j)}

\* os.scandir(d) as os.walk reads it: the entries of the directory in an
\* arbitrary order, each with the answer of its is_dir().
scandir(f, d) ==
    UNION {{[k \in 1..Len(order) |-> [obj |-> order[k], is_dir |-> answers[k]]] :
               answers \in {a \in [1..Len(order) -> BOOLEAN] :
                               \A k \in 1..Len(order) :
                                  a[k] \in IsDirOutcomes(f, order[k])}} :
           order \in Perms(Children(f, Lookup(f, d)))}

ObjsOf(listing) == [k \in 1..Len(listing) |-> listing[k].obj]

\* os.walk's dirnames and filenames for a listing, in the listing's order:
\* a symlink to a directory is listed with the directories.
dirnames(f, listing) ==
    NamesOf(f, ObjsOf(SelectSeq(listing, LAMBDA e : e.is_dir)))

filenames(f, listing) ==
    NamesOf(f, ObjsOf(SelectSeq(listing, LAMBDA e : ~e.is_dir)))

\* The directories os.walk goes on to after a listing, in the order of
\* dirnames: with followlinks left False it does not descend into a symlink.
WalkInto(f, listing) ==
    LET into == ObjsOf(SelectSeq(listing,
                         LAMBDA e : e.is_dir /\ f.obj[e.obj].kind # "lnk"))
    IN [k \in 1..Len(into) |-> PathOf(f, into[k])]

\* ------------------------------------------------------- set_vertex_props
InNeighbours(g, v) == {e[1] : e \in {d \in g.edges : d[2] = v}}

\* The characters of a name: one letter per name, "m" for the mount point,
\* and the marker of the encryption pattern where the name carries it.
NameStr(name) ==
    (IF name = MountName THEN <<"m">>
     ELSE <<(<<"a", "b", "c", "d", "e", "f", "g", "h">>)[name.id]>>)
    \o (IF name.enc THEN <<"#">> ELSE <<>>)

\* The string of an absolute, normalized path: what path.abspath returns.
RECURSIVE Render(_)
Render(p) ==
    IF p = <<>> THEN <<>>
    ELSE Render(SubSeq(p, 1, Len(p) - 1)) \o <<Sep>> \o NameStr(p[Len(p)])

\* The configured minimum depth of interest.
MIN_DEPTH == 3

\* bool(re.match(IN_PAT_VAULT, sliced_fn)): the pattern is anchored at the
\* start of the path and names the directory the vault is kept in.
VaultMatch(p) == p # <<>> /\ p[1].id = 1

\* A plausible slip: either condition is enough.
GtMinDepthEither(vault, dir_depth) == vault \/ dir_depth >= MIN_DEPTH

\* bool(re.match(IN_PAT_VAULT, sliced_fn)) and dir_depth >= MIN_DEPTH
GtMinDepth(vault, dir_depth) == vault /\ dir_depth >= MIN_DEPTH

\* A plausible slip: the sliced path is what gets stored.
StoredSliced(filename, sliced_fn) == sliced_fn

\* digraph.vp['filename'][vertex] = filename
StoredFilename(filename, sliced_fn) == filename

\* The assignments of set_vertex_props once os.stat has succeeded.
set_vertex_props(f, digraph, vertex, filename, slicing) ==
    LET sliced_fn == SlicedFn(filename, slicing)
        dir_depth == get_dir_depth(Render(sliced_fn), FALSE)
        parents == InNeighbours(digraph, vertex)
        old == digraph.vp[vertex]
        new == [old EXCEPT
                   !.parent_inode = IF parents = {} THEN old.parent_inode
                                    ELSE digraph.vp[SetMin(parents)].inode,
                   !.inode = st_ino(f, filename),
                   !.filename = StoredFilename(filename, sliced_fn),
                   !.filename_id = Sha256(filename),
                   !.name_type = TypeName(f, filename),
                   !.encrypted = EncMatch(sliced_fn),
                   !.dir_depth = dir_depth,
                   !.gt_min_depth = GtMinDepth(VaultMatch(sliced_fn), dir_depth)]
    IN [digraph EXCEPT
           !.vp[vertex] = new,
           !.gp.has_encrypted_files = IF new.encrypted THEN TRUE ELSE @]

\* ---------------------------------------------------- make_graph_from_dir
\* A dict is the set of its <<key, value>> pairs.
DictGet(d, k) == (CHOOSE e \in d : e[1] = k)[2]
DictSet(d, k, v) == {e \in d : e[1] # k} \cup {<<k, v>>}

\* A plausible slip: every edge starts from the top directory's vertex.
ParentVertexAlwaysTop(d, dir_id) == SetMin({e[2] : e \in d})

\* The vertex the new vertex's edge starts from: id_to_vertex[dir_id].
ParentVertex(d, dir_id) == DictGet(d, dir_id)

\* The graphs a caller may pass as digr: made earlier, two vertices, an edge.
PriorGraphs == {InputGraph(2, {<<0, 1>>}, enc) : enc \in {{}, {1}}}

InitWalk ==
    /\ fs = NoFs
    /\ top_dir = <<>>
    /\ digr_arg = [given |-> FALSE, graph |-> NoGraph]
    /\ digr = NoGraph
    /\ slice_path = FALSE
    /\ id_to_vertex = {}
    /\ ttl_objects = 0
    /\ walk_todo = <<>>
    /\ dirpath = <<>>
    /\ entries = <<>>
    /\ wk_pc = "call"
    /\ wk_exc = ""

\* make_graph_from_dir(top_dir, digr) is called on some directory tree.
WkCall ==
    /\ wk_pc = "call"
    /\ \E k \in 1..MaxObjs :
         \E s \in Trees(k) :
           \E e \in UpTo(1..k, MaxEnc) :
             \E b \in UpTo(1..k, MaxFail) :
               \E mt \in BOOLEAN :
                  fs' = [obj |-> s, enc |-> e, fails |-> b, mounted |-> mt]
    /\ top_dir' = PathOf(fs', 1)
    /\ \/ digr_arg' = [given |-> FALSE, graph |-> NoGraph]
       \/ \E g \in PriorGraphs : digr_arg' = [given |-> TRUE, graph |-> g]
    /\ digr' = digr_arg'.graph
    /\ wk_pc' = "assert"
    /\ UNCHANGED <<slice_path, id_to_vertex, ttl_objects, walk_todo, dirpath,
                   entries, wk_exc>>
    /\ UNCHANGED <<exVars, goVars, restVars>>

\* assert path.isdir(top_dir) fails.
WkAssertFails ==
    /\ wk_pc = "assert"
    /\ FALSE \in IsDirAnswers(fs, top_dir)
    /\ wk_pc' = "raised"
    /\ wk_exc' = "AssertionError"
    /\ UNCHANGED <<fs, top_dir, digr_arg, digr, slice_path, id_to_vertex,
                   ttl_objects, walk_todo, dirpath, entries>>
    /\ UNCHANGED <<exVars, goVars, restVars>>

\* The assertion holds; the graph is made when none was given, and the top
\* directory's vertex is added and set. os.walk then starts from top_dir.
WkTop ==
    /\ wk_pc = "assert"
    /\ TRUE \in IsDirAnswers(fs, top_dir)
    /\ ~StatFails(fs, top_dir)
    /\ LET g0 == IF digr_arg.given THEN digr ELSE NewDblingGraph
           dir_v == g0.n
       IN /\ slice_path' = digr_arg.given
          /\ digr' = set_vertex_props(fs, add_vertex(g0), dir_v, top_dir, slice_path')
          /\ id_to_vertex' = {<<Sha256(top_dir), dir_v>>}
    /\ ttl_objects' = 1
    /\ walk_todo' = <<top_dir>>
    /\ wk_pc' = "walk"
    /\ UNCHANGED <<fs, top_dir, digr_arg, dirpath, entries, wk_exc>>
    /\ UNCHANGED <<exVars, goVars, restVars>>

\* The assertion holds and os.stat of the top directory raises: the vertex
\* is already in the graph, and nothing catches the exception.
WkTopStatFails ==
    /\ wk_pc = "assert"
    /\ TRUE \in IsDirAnswers(fs, top_dir)
    /\ StatFails(fs, top_dir)
    /\ slice_path' = digr_arg.given
    /\ digr' = add_vertex(IF digr_arg.given THEN digr ELSE NewDblingGraph)
    /\ wk_pc' = "raised"
    /\ wk_exc' = "OSError"
    /\ UNCHANGED <<fs, top_dir, digr_arg, id_to_vertex, ttl_objects, walk_todo,
                   dirpath, entries>>
    /\ UNCHANGED <<exVars, goVars, restVars>>

\* os.walk yields its next directory: for dirpath, dirnames, filenames in ...
WkNextDir ==
    /\ wk_pc = "walk"
    /\ walk_todo # <<>>
    /\ dirpath' = Head(walk_todo)
    /\ \E listing \in scandir(fs, dirpath') :
          /\ entries' = dirnames(fs, listing) \o filenames(fs, listing)
          /\ walk_todo' = WalkInto(fs, listing) \o Tail(walk_todo)
    /\ wk_pc' = "body"
    /\ UNCHANGED <<fs, top_dir, digr_arg, digr, slice_path, id_to_vertex,
                   ttl_objects, wk_exc>>
    /\ UNCHANGED <<exVars, goVars, restVars>>

\* One pass of "for f in dirnames + filenames" in which os.stat succeeds.
WkAddObject ==
    /\ wk_pc = "body"
    /\ entries # <<>>
    /\ LET full_filename == join(dirpath, Head(entries))
           vertex == digr.n
           linked == add_edge(add_vertex(digr),
                              ParentVertex(id_to_vertex, Sha256(dirpath)), vertex)
       IN /\ ~StatFails(fs, full_filename)
          /\ digr' = set_vertex_props(fs, linked, vertex, full_filename, slice_path)
          /\ id_to_vertex' = DictSet(id_to_vertex, Sha256(full_filename), vertex)
    /\ ttl_objects' = ttl_objects + 1
    /\ entries' = Tail(entries)
    /\ UNCHANGED <<fs, top_dir, digr_arg, slice_path, walk_todo, dirpath, wk_pc, wk_exc>>
    /\ UNCHANGED <<exVars, goVars, restVars>>

\* One pass in which os.stat raises: the vertex and its edge are already in
\* the graph, and nothing catches the exception.
WkStatFails ==
    /\ wk_pc = "body"
    /\ entries # <<>>
    /\ LET full_filename == join(dirpath, Head(entries))
           vertex == digr.n
       IN /\ StatFails(fs, full_filename)
          /\ digr' = add_edge(add_vertex(digr),
                              ParentVertex(id_to_vertex, Sha256(dirpath)), vertex)
    /\ wk_pc' = "raised"
    /\ wk_exc' = "OSError"
    /\ UNCHANGED <<fs, top_dir, digr_arg, slice_path, id_to_vertex, ttl_objects,
                   walk_todo, dirpath, entries>>
    /\ UNCHANGED <<exVars, goVars, restVars>>

\* The inner loop has no entry left.
WkEndDir ==
    /\ wk_pc = "body"
    /\ entries = <<>>
    /\ wk_pc' = "walk"
    /\ UNCHANGED <<fs, top_dir, digr_arg, digr, slice_path, id_to_vertex,
                   ttl_objects, walk_todo, dirpath, entries, wk_exc>>
    /\ UNCHANGED <<exVars, goVars, restVars>>

\* os.walk is exhausted: return digr.
WkReturn ==
    /\ wk_pc = "walk"
    /\ walk_todo = <<>>
    /\ wk_pc' = "returned"
    /\ UNCHANGED <<fs, top_dir, digr_arg, digr, slice_path, id_to_vertex,
                   ttl_objects, walk_todo, dirpath, entries, wk_exc>>
    /\ UNCHANGED <<exVars, goVars, restVars>>

NextWalk ==
    \/ WkCall
    \/ WkAssertFails
    \/ WkTop
    \/ WkTopStatFails
    \/ WkNextDir
    \/ WkAddObject
    \/ WkStatFails
    \/ WkEndDir
    \/ WkReturn

\* --------------------------------------------------------------------- go
\* A call into FilesDiff or Merl is recorded by its name in go_calls.
MsgNeedRoot == "Must have root privileges to read from a mount point."

\* A plausible slip: the except block ends without "raise".
AfterDeniedSwallowed == "add_from_mount"

\* Where go is after its except block: "raise" lets the exception leave it.
AfterDenied == "raised"

\* The graphs add_from_mount and add_from_file may leave in the FilesDiff
\* object: up to MaxGV vertices, at most one of them not a keeper.
LoadedGraphs ==
    UNION {UNION {UNION {
        {InputGraph(n, es, enc)} \cup
        {[InputGraph(n, es, enc) EXCEPT !.vp[k].keeper = FALSE] : k \in 0..(n - 1)}
            : enc \in UpTo(0..(n - 1), MaxEnc)}
            : es \in UpTo({e \in (0..(n - 1)) \X (0..(n - 1)) : e[1] # e[2]}, MaxE)}
            : n \in 0..MaxGV}

\* graph.trim_unuseful(True): the vertices that are not keepers are removed.
trim_unuseful(g) ==
    remove_vertex(g, SelectIn(vertices(g),
                              SortIncreasing({v \in 0..(g.n - 1) : ~g.vp[v].keeper})))

\* graph.graph_copy(): a copy of the FilesDiff object's graph.
graph_copy(g) == copy(g)

\* A plausible slip: the graph itself is passed.
ExtractArgItself(g) == [object |-> "graph", g |-> g]

\* The argument of extract_candidates: graph.graph_copy(), a new object.
ExtractArg(g) == [object |-> "copy", g |-> graph_copy(g)]

InitGo ==
    /\ go_args = [mounted |-> FALSE, show_graph |-> FALSE, has_output |-> FALSE,
                  plain |-> FALSE]
    /\ go_env = [root |-> FALSE, may_seteuid |-> FALSE, default_exists |-> FALSE]
    /\ go_file = [output_file |-> "None", needs_closing |-> FALSE, open |-> FALSE,
                  mode |-> ""]
    /\ go_calls = <<>>
    /\ go_out = <<>>
    /\ go_pc = "call"
    /\ go_exc = ""
    /\ go_graph = NoGraph
    /\ go_copy = NoGraph
    /\ go_candidates = <<>>
    /\ go_matched = <<>>

\* go(start, mounted, verbose, show_graph, output_file, plain) is called;
\* init_logging(verbose); file_needs_closing = False
GoCall ==
    /\ go_pc = "call"
    /\ go_args' \in [mounted : BOOLEAN, show_graph : BOOLEAN, has_output : BOOLEAN,
                     plain : BOOLEAN]
    /\ go_env' \in [root : BOOLEAN, may_seteuid : BOOLEAN, default_exists : BOOLEAN]
    /\ go_file' = [output_file |-> IF go_args'.has_output THEN "given" ELSE "None",
                   needs_closing |-> FALSE,
                   open |-> go_args'.has_output,
                   mode |-> IF go_args'.has_output THEN "caller's" ELSE ""]
    /\ go_calls' = <<"init_logging">>
    /\ go_pc' = "output"
    /\ UNCHANGED <<go_out, go_exc>>
    /\ UNCHANGED goData
    /\ UNCHANGED <<exVars, wkVars, restVars>>

\* if plain and output_file is None: the default name is made and printed,
\* and open(output_file) opens the file of that name for reading.
GoDefaultOutput ==
    /\ go_pc = "output"
    /\ go_args.plain /\ go_file.output_file = "None"
    /\ go_env.default_exists
    /\ go_out' = Append(go_out, "No output file specified")
    /\ go_file' = [output_file |-> "default", needs_closing |-> TRUE, open |-> TRUE,
                   mode |-> "r"]
    /\ go_pc' = "setup"
    /\ UNCHANGED <<go_args, go_env, go_calls, go_exc>>
    /\ UNCHANGED goData
    /\ UNCHANGED <<exVars, wkVars, restVars>>

\* The same branch when no file of the default name exists: open raises.
GoDefaultOutputFails ==
    /\ go_pc = "output"
    /\ go_args.plain /\ go_file.output_file = "None"
    /\ ~go_env.default_exists
    /\ go_out' = Append(go_out, "No output file specified")
    /\ go_pc' = "raised"
    /\ go_exc' = "FileNotFoundError"
    /\ UNCHANGED <<go_args, go_env, go_file, go_calls>>
    /\ UNCHANGED goData
    /\ UNCHANGED <<exVars, wkVars, restVars>>

\* The branch is not taken.
GoKeepOutput ==
    /\ go_pc = "output"
    /\ ~(go_args.plain /\ go_file.output_file = "None")
    /\ go_pc' = "setup"
    /\ UNCHANGED <<go_args, go_env, go_file, go_calls, go_out, go_exc>>
    /\ UNCHANGED goData
    /\ UNCHANGED <<exVars, wkVars, restVars>>

\* merl = Merl(out_fp=output_file, plain_output=plain); graph = FilesDiff()
GoSetup ==
    /\ go_pc = "setup"
    /\ go_calls' = go_calls \o <<"Merl", "FilesDiff">>
    /\ go_pc' = IF go_args.mounted THEN "elevate" ELSE "add_from_file"
    /\ go_graph' = NewDblingGraph
    /\ UNCHANGED <<go_copy, go_candidates, go_matched>>
    /\ UNCHANGED <<go_args, go_env, go_file, go_out, go_exc>>
    /\ UNCHANGED <<exVars, wkVars, restVars>>

\* euid = geteuid(); if euid != 0: seteuid(0) -- and seteuid succeeds.
GoElevate ==
    /\ go_pc = "elevate"
    /\ go_env.root \/ go_env.may_seteuid
    /\ go_env' = [go_env EXCEPT !.root = TRUE]
    /\ go_pc' = "add_from_mount"
    /\ UNCHANGED <<go_args, go_file, go_calls, go_out, go_exc>>
    /\ UNCHANGED goData
    /\ UNCHANGED <<exVars, wkVars, restVars>>

\* seteuid(0) raises PermissionError: the message is logged and printed.
GoElevateDenied ==
    /\ go_pc = "elevate"
    /\ ~(go_env.root \/ go_env.may_seteuid)
    /\ go_out' = go_out \o <<"critical: " \o MsgNeedRoot, MsgNeedRoot>>
    /\ go_exc' = "PermissionError"
    /\ go_pc' = AfterDenied
    /\ UNCHANGED <<go_args, go_env, go_file, go_calls>>
    /\ UNCHANGED goData
    /\ UNCHANGED <<exVars, wkVars, restVars>>

\* graph.add_from_mount(start)
GoAddFromMount ==
    /\ go_pc = "add_from_mount"
    /\ go_calls' = Append(go_calls, "add_from_mount")
    /\ go_pc' = "trim"
    /\ go_graph' \in LoadedGraphs
    /\ UNCHANGED <<go_copy, go_candidates, go_matched>>
    /\ UNCHANGED <<go_args, go_env, go_file, go_out, go_exc>>
    /\ UNCHANGED <<exVars, wkVars, restVars>>

\* graph.add_from_file(start)
GoAddFromFile ==
    /\ go_pc = "add_from_file"
    /\ go_calls' = Append(go_calls, "add_from_file")
    /\ go_pc' = "trim"
    /\ go_graph' \in LoadedGraphs
    /\ UNCHANGED <<go_copy, go_candidates, go_matched>>
    /\ UNCHANGED <<go_args, go_env, go_file, go_out, go_exc>>
    /\ UNCHANGED <<exVars, wkVars, restVars>>

\* graph.trim_unuseful(True); if show_graph: graph.show_graph()
GoTrim ==
    /\ go_pc = "trim"
    /\ go_calls' = go_calls \o <<"trim_unuseful">>
                      \o (IF go_args.show_graph THEN <<"show_graph">> ELSE <<>>)
    /\ go_pc' = "extract"
    /\ go_graph' = trim_unuseful(go_graph)
    /\ UNCHANGED <<go_copy, go_candidates, go_matched>>
    /\ UNCHANGED <<go_args, go_env, go_file, go_out, go_exc>>
    /\ UNCHANGED <<exVars, wkVars, restVars>>

\* candidates = extract_candidates(graph.graph_copy())
GoExtract ==
    /\ go_pc = "extract"
    /\ go_calls' = go_calls \o <<"graph_copy", "extract_candidates">>
    /\ LET arg == ExtractArg(go_graph)
           ret == extract_candidates(arg.g)
       IN /\ go_candidates' = ret.candidates
          /\ go_copy' = ret.orig_graph
          /\ go_graph' = IF arg.object = "graph" THEN ret.orig_graph ELSE go_graph
    /\ go_pc' = "match"
    /\ UNCHANGED go_matched
    /\ UNCHANGED <<go_args, go_env, go_file, go_out, go_exc>>
    /\ UNCHANGED <<exVars, wkVars, restVars>>

\* merl.match_candidates(candidates), after the log line
GoMatch ==
    /\ go_pc = "match"
    /\ go_out' = Append(go_out, "info: Searching the DB")
    /\ go_calls' = Append(go_calls, "match_candidates")
    /\ go_matched' = go_candidates
    /\ UNCHANGED <<go_graph, go_copy, go_candidates>>
    /\ go_pc' = "save"
    /\ UNCHANGED <<go_args, go_env, go_file, go_exc>>
    /\ UNCHANGED <<exVars, wkVars, restVars>>

\* if output_file is not None and not plain: merl.save_merl()
\* merl.close_db()
GoSaveAndCloseDb ==
    /\ go_pc = "save"
    /\ go_calls' = go_calls
                      \o (IF go_file.output_file # "None" /\ ~go_args.plain
                          THEN <<"save_merl">> ELSE <<>>)
                      \o <<"close_db">>
    /\ go_pc' = "close"
    /\ UNCHANGED <<go_args, go_env, go_file, go_out, go_exc>>
    /\ UNCHANGED goData
    /\ UNCHANGED <<exVars, wkVars, restVars>>

\* if file_needs_closing: output_file.close(); the last log line; return
GoClose ==
    /\ go_pc = "close"
    /\ go_file' = IF go_file.needs_closing THEN [go_file EXCEPT !.open = FALSE]
                  ELSE go_file
    /\ go_out' = Append(go_out, "info: Search complete. Exiting.")
    /\ go_pc' = "done"
    /\ UNCHANGED <<go_args, go_env, go_calls, go_exc>>
    /\ UNCHANGED goData
    /\ UNCHANGED <<exVars, wkVars, restVars>>

NextGo ==
    \/ GoCall
    \/ GoDefaultOutput
    \/ GoDefaultOutputFails
    \/ GoKeepOutput
    \/ GoSetup
    \/ GoElevate
    \/ GoElevateDenied
    \/ GoAddFromMount
    \/ GoAddFromFile
    \/ GoTrim
    \/ GoExtract
    \/ GoMatch
    \/ GoSaveAndCloseDb
    \/ GoClose

\* ----------------------------------------------------------- get_dir_depth
InitDepth ==
    /\ gd_filename = <<>>
    /\ gd_slice = FALSE
    /\ gd_head = <<>>
    /\ gd_tail = <<>>
    /\ gd_depth = 0
    /\ gd_steps = 0
    /\ gd_pc = "call"

\* get_dir_depth(filename, slice_path) is called on some string: the
\* filename is sliced when asked for, dir_depth = 0, _head = filename.
GdCall ==
    /\ gd_pc = "call"
    /\ \E k \in 0..MaxLen :
         \E s \in [1..k -> Alphabet] :
           \E b \in BOOLEAN :
              /\ gd_slice' = b
              /\ gd_filename' = IF b THEN SliceStr(s) ELSE s
    /\ gd_head' = DepthStart(gd_filename').head
    /\ gd_tail' = DepthStart(gd_filename').tail
    /\ gd_depth' = DepthStart(gd_filename').depth
    /\ gd_steps' = DepthStart(gd_filename').steps
    /\ gd_pc' = DepthStart(gd_filename').pc
    /\ UNCHANGED <<exVars, wkVars, goVars, dgVars, dbVars>>

\* One iteration of the loop.
GdIterate ==
    /\ gd_pc = "loop"
    /\ LET st == DepthStep([head |-> gd_head, tail |-> gd_tail,
                            depth |-> gd_depth, steps |-> gd_steps,
                            pc |-> gd_pc])
       IN /\ gd_head' = st.head
          /\ gd_tail' = st.tail
          /\ gd_depth' = st.depth
          /\ gd_steps' = st.steps
          /\ gd_pc' = st.pc
    /\ UNCHANGED <<gd_filename, gd_slice>>
    /\ UNCHANGED <<exVars, wkVars, goVars, dgVars, dbVars>>

\* return dir_depth
GdReturn ==
    /\ gd_pc = "break"
    /\ gd_pc' = "returned"
    /\ UNCHANGED <<gd_filename, gd_slice, gd_head, gd_tail, gd_depth, gd_steps>>
    /\ UNCHANGED <<exVars, wkVars, goVars, dgVars, dbVars>>

GdRun == GdIterate \/ GdReturn

NextDepth == GdCall \/ GdRun

\* ------------------------------------------------------ crawl/db_iface
\* A column that is NULL (None) holds 0.
None == 0

\* The datetimes a crx_obj of a task may carry as dt_avail; the datetime of
\* the step it reports (dt_downloaded, dt_extracted, dt_profiled) is the
\* largest. An extension that is in the database beforehand was seen at an
\* earlier datetime.
CrxDates == {2}

Earlier == 1

\* The (ext_id, version) pairs tasks are run for.
CrxPairs == {<<"x", 1>>, <<"x", 2>>}

\* The crx_obj of a task: id, version and its datetimes.
CrxObjs ==
    {[id |-> p[1], version |-> p[2], dt_avail |-> d,
      dt_downloaded |-> SetMax(CrxDates), dt_extracted |-> SetMax(CrxDates),
      dt_profiled |-> SetMax(CrxDates)] : p \in CrxPairs, d \in CrxDates}

\* A plausible slip: the version is not compared.
WhereIdOnly(row, crx_obj) == row.ext_id = crx_obj.id

\* and_(extension.c.ext_id == crx_obj.id, extension.c.version == crx_obj.version)
Where(row, crx_obj) == row.ext_id = crx_obj.id /\ row.version = crx_obj.version

\* The rows of the table that a statement's where clause selects.
Matching(table, crx_obj) == {i \in 1..Len(table) : Where(table[i], crx_obj)}

\* db_session.execute(s).fetchone() for the select of downloaded, extracted
\* and profiled: no row, or one of the matching rows, whichever the database
\* returns first (the select has no ORDER BY).
fetchone(table, crx_obj) ==
    IF Matching(table, crx_obj) = {} THEN {<<>>}
    ELSE {<<table[i].downloaded, table[i].extracted, table[i].profiled>> :
             i \in Matching(table, crx_obj)}

\* A plausible slip: only the profiled date is looked at.
ProfiledIsSet(row) == row[3] # None

\* None not in list(row)
NoneNotIn(row) == \A k \in 1..Len(row) : row[k] # None

\* extension.update().where(...).values(...): vals maps the columns that
\* are set to their values.
Update(table, crx_obj, vals) ==
    [i \in 1..Len(table) |->
        IF Where(table[i], crx_obj)
        THEN [c \in DOMAIN table[i] |->
                 IF c \in DOMAIN vals THEN vals[c] ELSE table[i][c]]
        ELSE table[i]]

\* extension.insert().values(...): the columns not given are NULL.
Insert(table, crx_obj) ==
    Append(table, [ext_id |-> crx_obj.id, version |-> crx_obj.version,
                   last_known_available |-> crx_obj.dt_avail,
                   downloaded |-> crx_obj.dt_downloaded,
                   extracted |-> None, profiled |-> None])

\* A plausible slip: the pending changes are committed in either mode.
CommitAlways(read_only, committed, pending) == pending

\* _commit_it(): what is committed afterwards, given what was committed and
\* what the session holds with its pending changes.
CommitIt(read_only, committed, pending) ==
    IF read_only THEN committed ELSE pending

\* What a task leaves behind: the committed tables, the tables as its
\* session saw them with its own changes, and how it ended.
Outcome(ids, table, session_ids, session_table, ending) ==
    [ids |-> ids, table |-> table, session_ids |-> session_ids,
     session_table |-> session_table, ending |-> ending]

\* values(last_known_available=...) of db_download_complete
DownloadValues(crx_obj) == [last_known_available |-> crx_obj.dt_avail]

\* values(last_known_available=..., extracted=...) of db_extract_complete
ExtractValues(crx_obj) ==
    [last_known_available |-> crx_obj.dt_avail,
     extracted |-> crx_obj.dt_extracted]

\* crx_obj.cent_dict as db_profile_complete fills it.
cent_dict(crx_obj, update_dt_avail) ==
    IF update_dt_avail
    THEN [ext_id |-> crx_obj.id, version |-> crx_obj.version,
          profiled |-> crx_obj.dt_profiled,
          last_known_available |-> crx_obj.dt_avail]
    ELSE [ext_id |-> crx_obj.id, version |-> crx_obj.version,
          profiled |-> crx_obj.dt_profiled]

\* The pipeline stage a task moves its (ext_id, version) to when it ends:
\* download, then extract, then profile, each counted when it started
\* after the one before it had ended, and the download when it returns.
NextStage(stage, stage_was, name, crx_obj, ending) ==
    LET p == <<crx_obj.id, crx_obj.version>>
        at == stage[p]
    IN IF /\ stage_was = at
          /\ \/ name = "db_download_complete" /\ at = 0 /\ ending = "returned"
             \/ name = "db_extract_complete" /\ at = 1
             \/ name = "db_profile_complete" /\ at = 2
       THEN [stage EXCEPT ![p] = at + 1]
       ELSE stage

NoCrx == [id |-> "", version |-> 0, dt_avail |-> 0, dt_downloaded |-> 0,
          dt_extracted |-> 0, dt_profiled |-> 0]

\* The record of the task that has ended in the last step: what it was run with, the stage its
\* pair was at when it started, the table it read from, the committed tables
\* at the moment of its commit, and what it left behind.
NoTask ==
    [name |-> "none", crx_obj |-> NoCrx, read_only |-> FALSE, stage_was |-> 0,
     selected_from |-> <<>>, row |-> <<>>, ids_was |-> {}, table_was |-> <<>>,
     did |-> Outcome({}, <<>>, {}, <<>>, "")]

\* The worker processes that run tasks at the same time, each with its own
\* session (DB_SESSION is a scoped session), and the number of tasks they
\* may start between them.
Workers == {1, 2}

MaxRuns == 5

\* A worker with no task.
Idle ==
    [pc |-> "idle", name |-> "none", crx_obj |-> NoCrx, update_dt_avail |-> FALSE,
     row |-> <<>>, pending |-> "nothing", rows |-> {}, stage_was |-> 0,
     selected_from |-> <<>>]

InitDb ==
    /\ READ_ONLY = FALSE
    /\ db_ids = {}
    /\ db_table = <<>>
    /\ db_stage = [p \in CrxPairs |-> 0]
    /\ db_task = NoTask
    /\ db_pc = "import"
    /\ cc_task = [w \in Workers |-> Idle]
    /\ cc_runs = 0

\* The module is imported and READ_ONLY left as it is or set by the caller;
\* the database is empty or holds an extension a download task has left.
DbSetUp ==
    /\ db_pc = "import"
    /\ READ_ONLY' \in BOOLEAN
    /\ \/ db_ids' = {} /\ db_table' = <<>> /\ db_stage' = db_stage
       \/ \E crx_obj \in CrxObjs :
             /\ crx_obj.id = "x" /\ crx_obj.version = 1
             /\ db_ids' = {crx_obj.id}
             /\ db_table' = Insert(<<>>, [crx_obj EXCEPT
                                             !.dt_avail = Earlier,
                                             !.dt_downloaded = Earlier])
             /\ db_stage' = NextStage(db_stage, 0, "db_download_complete",
                                      crx_obj, "returned")
    /\ db_pc' = "ready"
    /\ UNCHANGED <<db_task, cc_task, cc_runs>>
    /\ UNCHANGED <<exVars, wkVars, goVars, gdVars, dgVars>>

\* ------------------------------------------------- the tasks, step by step
\* A task executes its statements and commits in separate round trips to
\* the database, and the steps of other workers' tasks run between them.
\* A worker takes a task: db_session = DB_SESSION()
Started(w, name, crx_obj) ==
    [Idle EXCEPT !.name = name,
                 !.crx_obj = crx_obj,
                 !.stage_was = db_stage[<<crx_obj.id, crx_obj.version>>]]

\* The task of a worker has ended: the stage and the record of the task.
Ended(w, task, ids, table, session_ids, session_table, ending) ==
    /\ db_ids' = ids
    /\ db_table' = table
    /\ db_stage' = NextStage(db_stage, task.stage_was, task.name, task.crx_obj,
                             ending)
    /\ db_task' = [name |-> task.name,
                   crx_obj |-> task.crx_obj,
                   read_only |-> READ_ONLY,
                   stage_was |-> task.stage_was,
                   selected_from |-> task.selected_from,
                   row |-> task.row,
                   ids_was |-> db_ids,
                   table_was |-> db_table,
                   did |-> Outcome(ids, table, session_ids, session_table, ending)]
    /\ cc_task' = [cc_task EXCEPT ![w] = Idle]
    /\ UNCHANGED <<READ_ONLY, db_pc, cc_runs>>
    /\ UNCHANGED <<exVars, wkVars, goVars, gdVars, dgVars>>

\* A step of a task that changes nothing but the worker's own position; no
\* task has ended in it.
Stepped(w, task) ==
    /\ cc_task' = [cc_task EXCEPT ![w] = task]
    /\ db_task' = NoTask
    /\ UNCHANGED <<READ_ONLY, db_ids, db_table, db_stage, db_pc>>
    /\ UNCHANGED <<exVars, wkVars, goVars, gdVars, dgVars>>

\* The table as the session of a worker holds it with its pending statement.
PendingTable(task) ==
    LET vals == CASE task.name = "db_extract_complete" ->
                        ExtractValues(task.crx_obj)
                  [] task.name = "db_profile_complete" ->
                        cent_dict(task.crx_obj, task.update_dt_avail)
                  [] OTHER -> DownloadValues(task.crx_obj)
    IN CASE task.pending = "insert" -> Insert(db_table, task.crx_obj)
         [] task.pending = "update" ->
               [i \in 1..Len(db_table) |->
                   IF i \in task.rows
                   THEN Update(<<db_table[i]>>, task.crx_obj, vals)[1]
                   ELSE db_table[i]]
         [] OTHER -> db_table

\* _commit_it() of a task on the extension table: the pending statement
\* takes effect on the committed table, or is rolled back, and the task
\* ends.
Committed(w, ending) ==
    /\ cc_task[w].pc = "commit"
    /\ LET pending == PendingTable(cc_task[w])
       IN Ended(w, cc_task[w], db_ids, CommitIt(READ_ONLY, db_table, pending),
                db_ids, pending, ending)

\* add_new_crx_to_db: db_session.execute(id_list.insert()...) raises
\* IntegrityError, which is caught, and the task returns.
CcAddDuplicate(w) ==
    /\ db_pc = "ready"
    /\ cc_task[w].pc = "idle"
    /\ cc_runs < MaxRuns
    /\ \E crx_obj \in CrxObjs :
          /\ crx_obj.version = 1
          /\ crx_obj.id \in db_ids
          /\ cc_runs' = cc_runs + 1
          /\ db_ids' = db_ids
          /\ db_table' = db_table
          /\ db_stage' = db_stage
          /\ db_task' = [name |-> "add_new_crx_to_db",
                         crx_obj |-> crx_obj,
                         read_only |-> READ_ONLY,
                         stage_was |-> db_stage[<<crx_obj.id, crx_obj.version>>],
                         selected_from |-> <<>>,
                         row |-> <<>>,
                         ids_was |-> db_ids,
                         table_was |-> db_table,
                         did |-> Outcome(db_ids, db_table, db_ids, db_table,
                                         "returned")]
    /\ UNCHANGED <<READ_ONLY, db_pc, cc_task>>
    /\ UNCHANGED <<exVars, wkVars, goVars, gdVars, dgVars>>

\* add_new_crx_to_db: the insert into id_list is executed and pending (the
\* task reads nothing of crx_obj but its id).
CcAdd(w) ==
    /\ db_pc = "ready"
    /\ cc_task[w].pc = "idle"
    /\ cc_runs < MaxRuns
    /\ \E crx_obj \in CrxObjs :
          /\ crx_obj.version = 1
          /\ crx_obj.id \notin db_ids
          /\ Stepped(w, [Started(w, "add_new_crx_to_db", crx_obj) EXCEPT
                            !.pending = "id", !.pc = "commit"])
    /\ cc_runs' = cc_runs + 1

\* add_new_crx_to_db: _commit_it(). When another worker has committed the
\* same id since the insert was executed, the insert is refused: by an
\* IntegrityError at the commit, which leaves the task, or, where the
\* database made the insert wait, by the one that is caught at the insert.
CcAdded(w) ==
    /\ cc_task[w].name = "add_new_crx_to_db"
    /\ cc_task[w].pc = "commit"
    /\ LET id == cc_task[w].crx_obj.id
       IN IF id \in db_ids /\ ~READ_ONLY
          THEN \E ending \in {"returned", "IntegrityError"} :
                  Ended(w, cc_task[w], db_ids, db_table, db_ids, db_table, ending)
          ELSE Ended(w, cc_task[w], CommitIt(READ_ONLY, db_ids, db_ids \cup {id}),
                     db_table, db_ids \cup {id}, db_table, "returned")

DbAddNewCrx ==
    \/ \E w \in Workers : CcAddDuplicate(w)
    \/ \E w \in Workers : CcAdd(w)
    \/ \E w \in Workers : CcAdded(w)

\* db_download_complete: row = db_session.execute(s).fetchone()
CcSelect(w) ==
    /\ db_pc = "ready"
    /\ cc_task[w].pc = "idle"
    /\ cc_runs < MaxRuns
    /\ \E crx_obj \in CrxObjs :
          \E row \in fetchone(db_table, crx_obj) :
             Stepped(w, [Started(w, "db_download_complete", crx_obj) EXCEPT
                            !.pc = IF row # <<>> THEN "update" ELSE "insert",
                            !.row = row,
                            !.selected_from = db_table])
    /\ cc_runs' = cc_runs + 1

\* if row: db_session.execute(u), in the worker's transaction: the rows the
\* where clause selects now are the rows the update is pending on.
CcUpdate(w) ==
    /\ cc_task[w].pc = "update"
    /\ Stepped(w, [cc_task[w] EXCEPT
                      !.pending = "update",
                      !.rows = Matching(db_table, cc_task[w].crx_obj),
                      !.pc = "commit"])
    /\ UNCHANGED cc_runs

\* else: db_session.execute(extension.insert()...), in the worker's transaction
CcInsert(w) ==
    /\ cc_task[w].pc = "insert"
    /\ Stepped(w, [cc_task[w] EXCEPT !.pending = "insert", !.pc = "commit"])
    /\ UNCHANGED cc_runs

\* _commit_it(), then "if None not in list(row): raise DuplicateDownload"
CcRaise(w) ==
    /\ cc_task[w].name = "db_download_complete"
    /\ cc_task[w].row # <<>> /\ NoneNotIn(cc_task[w].row)
    /\ Committed(w, "DuplicateDownload")

\* _commit_it(), then the task returns.
CcReturn(w) ==
    /\ cc_task[w].name = "db_download_complete"
    /\ ~(cc_task[w].row # <<>> /\ NoneNotIn(cc_task[w].row))
    /\ Committed(w, "returned")

\* A step of a db_download_complete task of some worker.
DbDownloadComplete ==
    \/ \E w \in Workers : CcSelect(w)
    \/ \E w \in Workers : CcUpdate(w)
    \/ \E w \in Workers : CcInsert(w)
    \/ \E w \in Workers : CcRaise(w)
    \/ \E w \in Workers : CcReturn(w)

\* db_extract_complete: db_session.execute(u)
CcExtract(w) ==
    /\ db_pc = "ready"
    /\ cc_task[w].pc = "idle"
    /\ cc_runs < MaxRuns
    /\ \E crx_obj \in CrxObjs :
          Stepped(w, [Started(w, "db_extract_complete", crx_obj) EXCEPT
                         !.pending = "update",
                         !.rows = Matching(db_table, crx_obj),
                         !.selected_from = db_table,
                         !.pc = "commit"])
    /\ cc_runs' = cc_runs + 1

\* db_extract_complete: _commit_it(), and the task returns.
CcExtracted(w) ==
    /\ cc_task[w].name = "db_extract_complete"
    /\ Committed(w, "returned")

DbExtractComplete ==
    \/ \E w \in Workers : CcExtract(w)
    \/ \E w \in Workers : CcExtracted(w)

\* db_profile_complete: cent_dict is filled and db_session.execute(u)
CcProfile(w) ==
    /\ db_pc = "ready"
    /\ cc_task[w].pc = "idle"
    /\ cc_runs < MaxRuns
    /\ \E crx_obj \in CrxObjs :
         \E update_dt_avail \in BOOLEAN :
            Stepped(w, [Started(w, "db_profile_complete", crx_obj) EXCEPT
                           !.update_dt_avail = update_dt_avail,
                           !.pending = "update",
                           !.rows = Matching(db_table, crx_obj),
                           !.selected_from = db_table,
                           !.pc = "commit"])
    /\ cc_runs' = cc_runs + 1

\* db_profile_complete: _commit_it(), and the task returns crx_obj.
CcProfiled(w) ==
    /\ cc_task[w].name = "db_profile_complete"
    /\ Committed(w, "returned")

DbProfileComplete ==
    \/ \E w \in Workers : CcProfile(w)
    \/ \E w \in Workers : CcProfiled(w)

NextDb ==
    \/ DbSetUp
    \/ DbAddNewCrx
    \/ DbDownloadComplete
    \/ DbExtractComplete
    \/ DbProfileComplete

\* ---------------------------------------------- DblingGraph's methods
\* What Graph.save writes: the vertices, the edges and the internal
\* property maps. The Python attributes of the object are not part of it.
Saved(g) == [n |-> g.n, vp |-> g.vp, vp_keys |-> g.vp_keys, edges |-> g.edges,
             gp |-> g.gp]

\* The file does not exist.
NoFile == Saved(NoGraph)

InitMethods ==
    /\ dg_g = NoGraph
    /\ dg_h = NoGraph
    /\ dg_file = NoFile
    /\ dg_file_was = NoFile
    /\ dg_last = "none"
    /\ dg_prev = "none"
    /\ dg_exc = ""

\* g = DblingGraph(extended_attrs), then filled with vertices and edges.
DgNew ==
    /\ dg_last = "none"
    /\ \E n \in 0..MaxGV :
         \E es \in UpTo({e \in (0..(n - 1)) \X (0..(n - 1)) : e[1] # e[2]}, MaxE) :
           \E enc \in UpTo(0..(n - 1), MaxEnc) :
             \E extended_attrs \in BOOLEAN :
                dg_g' = IF extended_attrs
                        THEN init_extended_attrs(InputGraph(n, es, enc))
                        ELSE InputGraph(n, es, enc)
    /\ dg_last' = "new"
    /\ dg_prev' = dg_last
    /\ dg_file_was' = dg_file
    /\ UNCHANGED <<dg_h, dg_file, dg_exc>>
    /\ UNCHANGED <<exVars, wkVars, goVars, gdVars, dbVars>>

\* h = DblingGraph()
DgNewOther ==
    /\ dg_last # "none"
    /\ dg_exc = ""
    /\ dg_h' = NewDblingGraph
    /\ dg_last' = "other"
    /\ dg_prev' = dg_last
    /\ dg_file_was' = dg_file
    /\ UNCHANGED <<dg_g, dg_file, dg_exc>>
    /\ UNCHANGED <<exVars, wkVars, goVars, gdVars, dbVars>>

\* h = g.copy()
DgCopy ==
    /\ dg_last # "none"
    /\ dg_exc = ""
    /\ dg_h' = copy(dg_g)
    /\ dg_last' = "copy"
    /\ dg_prev' = dg_last
    /\ dg_file_was' = dg_file
    /\ UNCHANGED <<dg_g, dg_file, dg_exc>>
    /\ UNCHANGED <<exVars, wkVars, goVars, gdVars, dbVars>>

\* h.init_extended_attrs(), h an object whose flag was assigned.
DgInitExtendedAttrs ==
    /\ dg_exc = ""
    /\ dg_h.has_extended_attrs \in {"True", "False"}
    /\ dg_h' = init_extended_attrs(dg_h)
    /\ dg_last' = "init_extended_attrs"
    /\ dg_prev' = dg_last
    /\ dg_file_was' = dg_file
    /\ UNCHANGED <<dg_g, dg_file, dg_exc>>
    /\ UNCHANGED <<exVars, wkVars, goVars, gdVars, dbVars>>

\* h.init_extended_attrs(), h an object whose __init__ skipped the
\* assignment: "if not self.has_extended_attrs" finds no such attribute.
DgInitExtendedAttrsFails ==
    /\ dg_exc = ""
    /\ dg_h.has_extended_attrs = Unset
    /\ dg_exc' = "AttributeError"
    /\ dg_last' = "init_extended_attrs"
    /\ dg_prev' = dg_last
    /\ dg_file_was' = dg_file
    /\ UNCHANGED <<dg_g, dg_h, dg_file>>
    /\ UNCHANGED <<exVars, wkVars, goVars, gdVars, dbVars>>

\* g.save(f): super().save(f)
DgSave ==
    /\ dg_last # "none"
    /\ dg_exc = ""
    /\ dg_file' = Saved(dg_g)
    /\ dg_last' = "save"
    /\ dg_prev' = dg_last
    /\ dg_file_was' = dg_file
    /\ UNCHANGED <<dg_g, dg_h, dg_exc>>
    /\ UNCHANGED <<exVars, wkVars, goVars, gdVars, dbVars>>

\* h.load(f): super().save(f)
DgLoad ==
    /\ dg_exc = ""
    /\ dg_h.has_extended_attrs # "unbound"
    /\ dg_file' = Saved(dg_h)
    /\ dg_last' = "load"
    /\ dg_prev' = dg_last
    /\ dg_file_was' = dg_file
    /\ UNCHANGED <<dg_g, dg_h, dg_exc>>
    /\ UNCHANGED <<exVars, wkVars, goVars, gdVars, dbVars>>

NextMethods ==
    \/ DgNew
    \/ DgNewOther
    \/ DgCopy
    \/ DgInitExtendedAttrs
    \/ DgInitExtendedAttrsFails
    \/ DgSave
    \/ DgLoad

\* --------------------------------------------------------- specifications
Init == InitExtract /\ InitWalk /\ InitGo /\ InitDepth /\ InitMethods /\ InitDb

SpecExtract == Init /\ [][NextExtract]_vars

\* The same behaviours, with the interpreter always taking the next step of
\* a call that has begun.
FairSpecExtract == SpecExtract /\ WF_vars(ExStep)

SpecWalk == Init /\ [][NextWalk]_vars

SpecGo == Init /\ [][NextGo]_vars

SpecDepth == Init /\ [][NextDepth]_vars

\* A call that has started runs on until it returns.
FairSpecDepth == SpecDepth /\ WF_vars(GdRun)

SpecMethods == Init /\ [][NextMethods]_vars

\* The tasks of db_iface, run one after another.
SpecDb == Init /\ [][NextDb]_vars


\* ------------------------------------------ what the claims are stated in
\* A vertex is identified by its filename_id, which no two vertices of an
\* input graph share.
Ids(g) == {g.vp[i].filename_id : i \in 0..(g.n - 1)}

IndexOf(g, id) == CHOOSE i \in 0..(g.n - 1) : g.vp[i].filename_id = id

CandidateIds(k) == Ids(candidates[k])

EmittedIds == UNION {CandidateIds(k) : k \in 1..Len(candidates)}

RECURSIVE SumOfSizes(_)
SumOfSizes(gs) == IF gs = <<>> THEN 0 ELSE Head(gs).n + SumOfSizes(Tail(gs))

\* The weakly-connected component of v in g, from the edge relation alone.
Grow(g, S) ==
    S \cup {w \in 0..(g.n - 1) :
              \E u \in S : <<u, w>> \in g.edges \/ <<w, u>> \in g.edges}

RECURSIVE Closure(_, _)
Closure(g, S) == IF Grow(g, S) = S THEN S ELSE Closure(g, Grow(g, S))

Component(g, v) == Closure(g, {v})

WeaklyConnected(g) == g.n > 0 /\ Component(g, 0) = 0..(g.n - 1)

\* The input indices of the vertices of a candidate.
InputIndices(c) == {IndexOf(in_graph, id) : id \in Ids(c)}

\* C1: at every iteration boundary the vertices of the working graph and of
\* the candidates emitted so far partition the input's vertices (after the
\* two removals of an iteration the scratch copy holds exactly what the
\* working graph lost), and on return the working graph is empty.
C1_VerticesPartitioned ==
    /\ ex_pc \in {"while", "done"} =>
          /\ Ids(orig_graph) \cup EmittedIds = Ids(in_graph)
          /\ Cardinality(Ids(orig_graph)) = orig_graph.n
          /\ orig_graph.n + SumOfSizes(candidates) = in_graph.n
          /\ Ids(orig_graph) \cap EmittedIds = {}
          /\ \A j, k \in 1..Len(candidates) :
                j # k => CandidateIds(j) \cap CandidateIds(k) = {}
    /\ ex_pc = "append" =>
          /\ Ids(orig_graph) \cup Ids(sub_graph) \cup EmittedIds = Ids(in_graph)
          /\ orig_graph.n + sub_graph.n + SumOfSizes(candidates) = in_graph.n
    /\ ex_pc = "done" => orig_graph.n = 0

\* A run in which removing a component re-indexed the vertices that stayed:
\* the first candidate holds input vertices 0 and 2 and not vertex 1.
C1_Witness ==
    /\ ex_pc = "done"
    /\ Len(candidates) >= 2
    /\ {0, 2} \subseteq InputIndices(candidates[1])
    /\ 1 \notin InputIndices(candidates[1])

\* C2: every returned candidate is weakly connected, and no edge of the
\* input joins two different candidates.
C2_MaximalComponents ==
    ex_pc = "done" =>
        /\ \A k \in 1..Len(candidates) : WeaklyConnected(candidates[k])
        /\ \A e \in in_graph.edges :
              \A k \in 1..Len(candidates) :
                 (in_graph.vp[e[1]].filename_id \in CandidateIds(k))
                    <=> (in_graph.vp[e[2]].filename_id \in CandidateIds(k))

\* Two candidates, the second of two vertices joined only by an edge that
\* points at its seed.
C2_Witness ==
    /\ ex_pc = "done"
    /\ Len(candidates) = 2
    /\ candidates[2].n = 2
    /\ candidates[2].edges = {<<1, 0>>}

\* C3: every returned candidate is the subgraph of the input its vertices
\* induce, each vertex with the property values it had in the input; a
\* weakly-connected input comes back as one candidate equal to it.
C3_InducedSubgraph ==
    ex_pc = "done" =>
        /\ \A k \in 1..Len(candidates) :
              LET c == candidates[k]
                  m == [i \in 0..(c.n - 1) |-> IndexOf(in_graph, c.vp[i].filename_id)]
              IN /\ \A i \in 0..(c.n - 1) : c.vp[i] = in_graph.vp[m[i]]
                 /\ {<<m[e[1]], m[e[2]]>> : e \in c.edges}
                       = {e \in in_graph.edges :
                            e[1] \in InputIndices(c) /\ e[2] \in InputIndices(c)}
                 /\ Cardinality(c.edges)
                       = Cardinality({e \in in_graph.edges :
                            e[1] \in InputIndices(c) /\ e[2] \in InputIndices(c)})
        /\ WeaklyConnected(in_graph) =>
              /\ Len(candidates) = 1
              /\ candidates[1].n = in_graph.n
              /\ candidates[1].vp = in_graph.vp
              /\ candidates[1].edges = in_graph.edges

\* A second candidate that kept an edge, which had to be re-indexed.
C3_Witness ==
    /\ ex_pc = "done"
    /\ Len(candidates) = 2
    /\ candidates[2].edges # {}
    /\ candidates[2].vp[0].encrypted

\* C4: every iteration takes at least one vertex out of the working graph,
\* and every call of extract_candidates reaches its return.
C4_Terminates ==
    /\ [][ex_pc = "rm_orig" => orig_graph'.n < orig_graph.n]_vars
    /\ (ex_pc = "while") ~> (ex_pc = "done")

\* A return after as many iterations as the bound allows vertices.
C4_Witness ==
    /\ ex_pc = "done"
    /\ in_graph.n = MaxV
    /\ Len(candidates) = MaxV

\* C5: the k-th candidate is the component of the lowest-indexed input
\* vertex that no earlier candidate holds, its vertices in input order.
C5_OrderedBySeed ==
    ex_pc \in {"while", "done"} =>
        \A k \in 1..Len(candidates) :
           LET earlier == UNION {CandidateIds(j) : j \in 1..(k - 1)}
               seed == SetMin({i \in 0..(in_graph.n - 1) :
                                 in_graph.vp[i].filename_id \notin earlier})
               comp == SortIncreasing(Component(in_graph, seed))
           IN /\ candidates[k].n = Len(comp)
              /\ \A i \in 0..(candidates[k].n - 1) :
                    candidates[k].vp[i].filename_id
                       = in_graph.vp[comp[i + 1]].filename_id

\* Two candidates whose seeds were input vertices 0 and 1, the first one
\* holding a vertex with a higher index than the second seed.
C5_Witness ==
    /\ ex_pc = "done"
    /\ Len(candidates) = 2
    /\ InputIndices(candidates[1]) = {0, 2}
    /\ InputIndices(candidates[2]) = {1}

\* The flag agrees with a scan of the graph's vertices.
FlagMatchesScan(g) ==
    g.gp.has_encrypted_files <=> (\E i \in 0..(g.n - 1) : g.vp[i].encrypted)

\* C6: in the graph of a walk, in the working graph at every iteration
\* boundary and in every candidate, has_encrypted_files is TRUE exactly when
\* some vertex of that graph has encrypted set.
C6_FlagIffEncryptedVertex ==
    /\ wk_pc \in {"walk", "body", "returned"} => FlagMatchesScan(digr)
    /\ ex_pc \in {"while", "done"} => FlagMatchesScan(orig_graph)
    /\ \A k \in 1..Len(candidates) : FlagMatchesScan(candidates[k])

\* The part of C6 that the walk alone decides.
C6_FlagDuringWalk ==
    wk_pc \in {"walk", "body", "returned"} => FlagMatchesScan(digr)

\* The vertices this call added: those after the ones digr came with.
FirstAdded == IF digr_arg.given THEN digr_arg.graph.n ELSE 0
Added == FirstAdded..(digr.n - 1)

\* The objects of the tree, and those below the top directory.
Objects == {i \in 1..Len(fs.obj) : fs.obj[i].kind # "none"}

\* C7: a failing metadata read does not end the walk: the walk returns, the
\* failing object is the only one without a vertex, and it is counted as
\* one skipped object.
C7_UnreadableObjectSkipped ==
    /\ wk_exc # "OSError"
    /\ (wk_pc = "returned" /\ Cardinality(fs.fails) = 1) =>
           /\ Cardinality(Added) = Cardinality(Objects) - 1
           /\ ttl_objects = Cardinality(Objects) - 1

\* C8: the vertices a walk has added form a tree rooted at the top
\* directory's vertex: the root has no parent edge; every other one has one
\* incoming edge, from the vertex of its containing directory, whose inode
\* is its parent_inode; every vertex stands for an object of the tree under
\* its own path, none for a path that leads through a symlink; and on
\* return every object has exactly one vertex.
C8_WalkBuildsTree ==
    wk_pc \in {"walk", "body", "returned"} =>
        /\ InNeighbours(digr, FirstAdded) = {}
        /\ digr.vp[FirstAdded].filename = top_dir
        /\ \A v \in Added \ {FirstAdded} :
              /\ Cardinality(InNeighbours(digr, v)) = 1
              /\ \A u \in InNeighbours(digr, v) :
                    /\ u \in Added
                    /\ digr.vp[u].filename
                          = SubSeq(digr.vp[v].filename, 1, Len(digr.vp[v].filename) - 1)
                    /\ digr.vp[u].name_type = "directory"
                    /\ digr.vp[v].parent_inode = digr.vp[u].inode
        /\ \A v \in Added : Lookup(fs, digr.vp[v].filename) # 0
        /\ \A v, w \in Added : digr.vp[v].filename = digr.vp[w].filename => v = w
        /\ wk_pc = "returned" =>
              {digr.vp[v].filename : v \in Added} = {PathOf(fs, i) : i \in Objects}

\* A finished walk, into a graph that was passed in, of a tree in which a
\* directory below the top holds a symlink to a directory with content.
C8_Witness ==
    /\ wk_pc = "returned"
    /\ digr_arg.given
    /\ Cardinality(Added) = 3
    /\ \E j \in Objects :
          /\ fs.obj[j].kind = "lnk"
          /\ fs.obj[j].parent = 2
          /\ fs.obj[j].target # 0
          /\ Children(fs, fs.obj[j].target) # {}

\* C10: when top_dir is not a directory the call ends in the assertion and
\* does no graph work: nothing is added, counted or recorded, and the graph
\* passed as digr is as it was.
C10_NotADirectoryFailsFirst ==
    (wk_pc # "call" /\ fs.obj[1].kind \in {"file", "none"}) =>
        /\ wk_pc \in {"assert", "raised"}
        /\ wk_pc = "raised" => wk_exc = "AssertionError"
        /\ digr = digr_arg.graph
        /\ id_to_vertex = {}
        /\ ttl_objects = 0

\* The call has failed on a regular file, with a graph passed as digr.
C10_Witness ==
    /\ wk_pc = "raised"
    /\ wk_exc = "AssertionError"
    /\ digr_arg.given
    /\ fs.obj[1].kind = "file"
    /\ 1 \notin fs.fails

\* The graph work of a run of go.
GraphWork == {"add_from_mount", "trim_unuseful", "extract_candidates", "match_candidates"}

\* C9: when go is run on a mount by a user who is not root and may not
\* become root, the run ends in an exception, none of the graph work is
\* called, and the PermissionError leaves go after the message was logged
\* and printed.
C9_DeniedElevationIsFatal ==
    (go_pc # "call" /\ go_args.mounted /\ ~go_env.root /\ ~go_env.may_seteuid) =>
        /\ SeqRange(go_calls) \cap GraphWork = {}
        /\ go_pc # "done"
        /\ go_exc = "PermissionError" =>
              /\ go_pc = "raised"
              /\ go_out # <<>>
              /\ go_out[Len(go_out)] = MsgNeedRoot
              /\ go_out[Len(go_out) - 1] = "critical: " \o MsgNeedRoot

\* seteuid(0) was denied and the exception has left go.
C9_Witness ==
    /\ go_pc = "raised"
    /\ go_exc = "PermissionError"
    /\ go_args.mounted
    /\ SeqRange(go_calls) = {"init_logging", "Merl", "FilesDiff"}

\* ------------------------------------------------------------------- C12
\* The non-empty components of a path string: the places where a run of
\* characters other than the separator begins.
Components(p) ==
    Cardinality({i \in 1..Len(p) : p[i] # Sep /\ (i = 1 \/ p[i - 1] = Sep)})

\* The segments the separators cut a path string into.
Segments(p) == Cardinality({i \in 1..Len(p) : p[i] = Sep}) + 1

\* C12: for every path (absolute or relative, with or without trailing or
\* repeated separators, the root and the empty path included) get_dir_depth
\* starts no more loop iterations than the path has segments, returns, and
\* returns the number of non-empty components of the path.
C12_DepthCountsComponents ==
    /\ [](gd_pc # "call" => gd_steps <= Segments(gd_filename))
    /\ [](gd_pc = "returned" => gd_depth = Components(gd_filename))
    /\ (gd_pc = "loop") ~> (gd_pc = "returned")

\* A path with repeated trailing separators has been counted.
C12_Witness ==
    /\ gd_pc = "returned"
    /\ gd_filename = <<Sep, "a", Sep, Sep>>
    /\ gd_depth = 1
    /\ gd_steps > 1

\* ------------------------------------------------------------------- C11
\* The vertices of this call that set_vertex_props has filled in.
SetVertices == {v \in Added : digr.vp[v].filename # <<>>}

\* The path the depth and the patterns of a vertex were computed from.
SlicedPathOf(v) == SlicedFn(digr.vp[v].filename, slice_path)

\* C11: for every vertex set by set_vertex_props, dir_depth is the depth of
\* the (optionally sliced) path and gt_min_depth is TRUE exactly when that
\* path matches the vault pattern and dir_depth is at least MIN_DEPTH: a
\* shallower match and a deep enough non-match both have it FALSE.
C11_GtMinDepthIffVaultAndDeep ==
    wk_pc \in {"walk", "body", "returned"} =>
        \A v \in SetVertices :
           /\ digr.vp[v].dir_depth = Len(SlicedPathOf(v))
           /\ digr.vp[v].gt_min_depth
                 <=> (VaultMatch(SlicedPathOf(v)) /\ digr.vp[v].dir_depth >= MIN_DEPTH)

\* A finished walk in which a vertex matches the vault pattern above the
\* minimum depth and another matches it at the minimum depth.
C11_Witness ==
    /\ wk_pc = "returned"
    /\ \E v, w \in SetVertices :
          /\ VaultMatch(SlicedPathOf(v))
          /\ digr.vp[v].dir_depth < MIN_DEPTH
          /\ ~digr.vp[v].gt_min_depth
          /\ digr.vp[w].dir_depth = MIN_DEPTH
          /\ digr.vp[w].gt_min_depth

\* A finished walk with a vertex deep enough whose path does not match.
C11_WitnessNoMatch ==
    /\ wk_pc = "returned"
    /\ \E v \in SetVertices :
          /\ ~VaultMatch(SlicedPathOf(v))
          /\ digr.vp[v].dir_depth >= MIN_DEPTH
          /\ ~digr.vp[v].gt_min_depth

\* ------------------------------------------------------------------- C13
\* What set_vertex_props stores for the vertex v when it does not slice.
Unsliced(v) ==
    set_vertex_props(fs, digr, v, digr.vp[v].filename, FALSE).vp[v]

\* C13: whether or not the walk slices paths, the filename stored for a
\* vertex is the full path of its object, mount point included, and its
\* filename_id is the digest of that path; and where the slice pattern does
\* not match the path, dir_depth, gt_min_depth and encrypted are what they
\* are without slicing.
C13_SlicingLeavesFilename ==
    wk_pc \in {"walk", "body", "returned"} =>
        \A v \in SetVertices :
           /\ digr.vp[v].filename \in {PathOf(fs, i) : i \in Objects}
           /\ digr.vp[v].filename_id = Sha256(digr.vp[v].filename)
           /\ SlicedFn(digr.vp[v].filename, TRUE) = digr.vp[v].filename =>
                 LET u == Unsliced(v)
                 IN /\ digr.vp[v].dir_depth = u.dir_depth
                    /\ digr.vp[v].gt_min_depth = u.gt_min_depth
                    /\ digr.vp[v].encrypted = u.encrypted

\* A finished walk that sliced the mount point off the paths it examined:
\* an encrypted object below the top directory has its full path stored.
C13_Witness ==
    /\ wk_pc = "returned"
    /\ slice_path
    /\ fs.mounted
    /\ \E v \in SetVertices :
          /\ SlicedPathOf(v) # digr.vp[v].filename
          /\ digr.vp[v].filename[1] = MountName
          /\ digr.vp[v].encrypted
          /\ digr.vp[v].dir_depth = Len(digr.vp[v].filename) - 1

\* A finished slicing walk of a tree that is not below the mount point.
C13_WitnessNoMatch ==
    /\ wk_pc = "returned"
    /\ slice_path
    /\ ~fs.mounted
    /\ \E v \in SetVertices : digr.vp[v].gt_min_depth /\ digr.vp[v].encrypted

\* ------------------------------------------------------------------- C14
\* C14: the graph copy() returns is identical to its source, its
\* has_extended_attrs flag included, so that init_extended_attrs can be
\* called on it (no call ends in AttributeError) and leaves it with the
\* extended properties, added exactly when the source did not have them.
C14_CopyIsFullyInitialised ==
    /\ dg_last = "copy" => dg_h = dg_g
    /\ dg_exc # "AttributeError"
    /\ (dg_last = "init_extended_attrs" /\ dg_prev = "copy") =>
           dg_h = init_extended_attrs(dg_g)

\* What does hold of a copy: the vertices, edges and property maps are the
\* source's.
C14_CopyKeepsContent ==
    dg_last = "copy" => Saved(dg_h) = Saved(dg_g)

\* ------------------------------------------------------------------- C15
\* C15: h.load(f) leaves the file f as it was, and after g.save(f) followed
\* by h.load(f) the graph h has the vertices, edges and property values g
\* was saved with.
C15_LoadReadsSavedGraph ==
    /\ dg_last = "load" => dg_file = dg_file_was
    /\ (dg_last = "load" /\ dg_prev = "save") => Saved(dg_h) = dg_file_was

\* ------------------------------------------------------------------- C16
\* C16: a call with plain set and no output file does not fail for want of
\* the file: it creates the default report file, which the matcher's results
\* can then be written to, and has closed it when it returns.
C16_DefaultReportFile ==
    (go_pc # "call" /\ go_args.plain /\ ~go_args.has_output) =>
        /\ go_exc # "FileNotFoundError"
        /\ go_pc \notin {"output", "raised"} =>
              /\ go_file.output_file = "default"
              /\ go_file.mode = "w"
        /\ go_pc = "done" => ~go_file.open

\* What does hold of such a call when a file of the default name exists: the
\* file is opened, and closed again before go returns.
C16_OpenedFileIsClosed ==
    (go_args.plain /\ ~go_args.has_output) =>
        /\ go_pc \in {"setup", "elevate", "add_from_mount", "add_from_file", "trim",
                      "extract", "match", "save", "close"} => go_file.open
        /\ go_pc = "done" => ~go_file.open

\* ------------------------------------------------------------------- C19
\* The calls of a complete run of go, in the order the claim gives them.
StepsInOrder ==
    <<"init_logging", "Merl", "FilesDiff">>
       \o <<IF go_args.mounted THEN "add_from_mount" ELSE "add_from_file">>
       \o <<"trim_unuseful">>
       \o (IF go_args.show_graph THEN <<"show_graph">> ELSE <<>>)
       \o <<"graph_copy", "extract_candidates", "match_candidates">>
       \o (IF go_args.has_output /\ ~go_args.plain THEN <<"save_merl">> ELSE <<>>)
       \o <<"close_db">>

\* C19: in a run of go that has reached the matcher the calls were made in
\* the order load, trim_unuseful, extract_candidates on a copy,
\* match_candidates, save_merl (only with an output file and plain not
\* set), close_db; match_candidates got the list extract_candidates
\* returned; the copy was drained and the graph of go itself still holds
\* every vertex, each in exactly one of the candidates.
C19_PipelineOrder ==
    "match_candidates" \in SeqRange(go_calls) =>
        /\ Len(go_calls) <= Len(StepsInOrder)
        /\ go_calls = SubSeq(StepsInOrder, 1, Len(go_calls))
        /\ go_pc = "done" => go_calls = StepsInOrder
        /\ go_matched = go_candidates
        /\ go_matched = extract_candidates(copy(go_graph)).candidates
        /\ num_vertices(go_copy) = 0
        /\ num_vertices(go_graph) = SumOfSizes(go_matched)
        /\ Ids(go_graph) = UNION {Ids(go_matched[k]) : k \in 1..Len(go_matched)}

\* A finished run on a mount, with a MERL output file, of a graph of two
\* vertices that fell into two candidates.
C19_Witness ==
    /\ go_pc = "done"
    /\ go_args.mounted
    /\ "save_merl" \in SeqRange(go_calls)
    /\ num_vertices(go_graph) = 2
    /\ Len(go_matched) = 2

\* ------------------------------------------------------------------- C17
\* The rows of a table for the (ext_id, version) of a crx_obj, and those of
\* them with all three dates set.
RowsFor(table, crx_obj) ==
    {i \in 1..Len(table) : /\ table[i].ext_id = crx_obj.id
                           /\ table[i].version = crx_obj.version}

FullRowsFor(table, crx_obj) ==
    {i \in RowsFor(table, crx_obj) : /\ table[i].downloaded # None
                                     /\ table[i].extracted # None
                                     /\ table[i].profiled # None}

\* What C17 says of a db_download_complete task whatever the mode: it
\* raises DuplicateDownload exactly when the table it read held a row for
\* its (ext_id, version) with all three dates set; with a row that lacks a
\* date it returns and adds no row; with no row it inserts one, with
\* downloaded set.
DownloadDecidesByTable(task) ==
    /\ task.did.ending = "DuplicateDownload"
          <=> FullRowsFor(task.selected_from, task.crx_obj) # {}
    /\ task.did.ending \in {"DuplicateDownload", "returned"}
    /\ RowsFor(task.selected_from, task.crx_obj) # {} =>
          Len(task.did.session_table) = Len(task.table_was)
    /\ RowsFor(task.selected_from, task.crx_obj) = {} =>
          /\ Len(task.did.session_table) = Len(task.table_was) + 1
          /\ LET new == task.did.session_table[Len(task.did.session_table)]
             IN /\ new.ext_id = task.crx_obj.id
                /\ new.version = task.crx_obj.version
                /\ new.downloaded # None

\* The table the task's select read held at most one row for its pair.
OneRowAtMost(task) ==
    Cardinality(RowsFor(task.selected_from, task.crx_obj)) <= 1

\* The same of the row the select returned: the task got a row exactly when
\* the table it read held one for its pair, and one of those; it raises
\* DuplicateDownload exactly when the three dates of that row are set, which
\* is what the table decides when it holds one row for the pair at most.
DownloadDecides(task) ==
    /\ task.row # <<>> <=> RowsFor(task.selected_from, task.crx_obj) # {}
    /\ task.row # <<>> =>
          \E i \in RowsFor(task.selected_from, task.crx_obj) :
             task.row = <<task.selected_from[i].downloaded,
                          task.selected_from[i].extracted,
                          task.selected_from[i].profiled>>
    /\ task.did.ending = "DuplicateDownload"
          <=> /\ task.row # <<>>
              /\ task.row[1] # None /\ task.row[2] # None /\ task.row[3] # None
    /\ OneRowAtMost(task) =>
          (task.did.ending = "DuplicateDownload"
              <=> FullRowsFor(task.selected_from, task.crx_obj) # {})
    /\ task.did.ending \in {"DuplicateDownload", "returned"}
    /\ task.row # <<>> =>
          Len(task.did.session_table) = Len(task.table_was)
    /\ task.row = <<>> =>
          /\ Len(task.did.session_table) = Len(task.table_was) + 1
          /\ LET new == task.did.session_table[Len(task.did.session_table)]
             IN /\ new.ext_id = task.crx_obj.id
                /\ new.version = task.crx_obj.version
                /\ new.downloaded # None

\* The task that ended in the last step was a db_download_complete for a
\* pair whose download, extract and profile tasks had all ended, in this
\* order, when it started.
LaterDownload ==
    /\ db_task.name = "db_download_complete"
    /\ db_task.stage_was = 3

C17_LateDuplicateRead ==
    /\ LaterDownload
    /\ ~READ_ONLY
    /\ db_task.did.ending = "returned"
    /\ FullRowsFor(db_task.selected_from, db_task.crx_obj) # {}
    /\ Cardinality(RowsFor(db_task.selected_from, db_task.crx_obj)) = 2

\* ------------------------------------------------------------------- C18
\* C18: while READ_ONLY is true no step of any task changes the committed
\* tables, and a task run in that mode has left them as they were, whatever
\* it had pending; a task that returns while READ_ONLY is false has left
\* committed what its session held, its own changes included.
C18_ReadOnlyKeepsCommitted ==
    /\ [][(db_pc = "ready" /\ READ_ONLY) =>
             (db_table' = db_table /\ db_ids' = db_ids)]_vars
    /\ [](db_task.name # "none" =>
            /\ db_task.read_only =>
                  /\ db_task.did.table = db_task.table_was
                  /\ db_task.did.ids = db_task.ids_was
            /\ (~db_task.read_only /\ db_task.did.ending = "returned") =>
                  /\ db_task.did.table = db_task.did.session_table
                  /\ db_task.did.ids = db_task.did.session_ids)

\* A db_extract_complete task run in READ_ONLY mode on a database that
\* holds its extension: the update it had pending was rolled back.
C18_Witness ==
    /\ db_task.name = "db_extract_complete"
    /\ db_task.read_only
    /\ db_task.did.session_table # db_task.table_was
    /\ db_table = db_task.table_was
    /\ Len(db_table) = 1

\* A db_download_complete task run with READ_ONLY false has committed the
\* row it inserted.
C18_WitnessCommitted ==
    /\ db_task.name = "db_download_complete"
    /\ ~db_task.read_only
    /\ Len(db_task.did.table) = Len(db_task.table_was) + 1

\* ------------------------------------------------------------------- C20
\* The worker found no row for its pair and has its insert still to commit.
PassedCheck(w) ==
    \/ cc_task[w].pc = "insert"
    \/ cc_task[w].pc = "commit" /\ cc_task[w].pending = "insert"

\* C20: however db_download_complete tasks for the same (ext_id, version)
\* interleave, no two of them both pass the check for an existing row and go
\* on to insert, and the extension table holds at most one row for the pair.
C20_CheckAndInsertExclusive ==
    /\ \A w1, w2 \in Workers :
          (/\ w1 # w2
           /\ PassedCheck(w1) /\ PassedCheck(w2)
           /\ cc_task[w1].crx_obj.id = cc_task[w2].crx_obj.id)
          => cc_task[w1].crx_obj.version # cc_task[w2].crx_obj.version
    /\ \A p \in CrxPairs :
          Cardinality({i \in 1..Len(db_table) : /\ db_table[i].ext_id = p[1]
                                                /\ db_table[i].version = p[2]}) <= 1

\* ------------------------------------------------------------------- C21
\* The weakly-connected components of a graph, from the edge relation alone.
NumComponents(g) == Cardinality({Component(g, v) : v \in 0..(g.n - 1)})

\* The positions of extract_candidates inside the loop body.
InLoopBody == ex_pc \in {"subtree", "rm_orig", "rm_sub", "append"}

\* C21: every iteration of the loop appends exactly one candidate, and a
\* non-empty one (the guard never discards what an iteration extracted), so
\* the returned list is as long as the input graph has weakly-connected
\* components; on an empty input graph the loop body never runs, vertex 0 is
\* never looked up, and the empty list is returned.
C21_OneCandidatePerComponent ==
    /\ [](InLoopBody => in_graph.n > 0 /\ sub_graph.n > 0)
    /\ [](ex_pc = "append" => sub_graph.n > 0)
    /\ [][ex_pc = "append" =>
             /\ Len(candidates') = Len(candidates) + 1
             /\ candidates'[Len(candidates')].n > 0]_vars
    /\ [][ex_pc = "while" /\ in_graph.n = 0 => ex_pc' = "done"]_vars
    /\ [](ex_pc = "done" => Len(candidates) = NumComponents(in_graph))
    /\ [](ex_pc = "done" /\ in_graph.n = 0 => candidates = <<>>)
    /\ [](ex_pc # "raised")

\* A return from a graph of three vertices in two components, one of them
\* held together by an edge: two iterations, two candidates.
C21_Witness ==
    /\ ex_pc = "done"
    /\ in_graph.n = 3
    /\ in_graph.edges # {}
    /\ NumComponents(in_graph) = 2
    /\ Len(candidates) = 2

\* A return from the empty graph.
C21_WitnessEmpty ==
    /\ ex_pc = "done"
    /\ in_graph.n = 0
    /\ candidates = <<>>

====
